---------------------------- MODULE Spec2Model ----------------------------
(***************************************************************************)
(* A model of cluster.c (src/unnamed/part_000): the clusterer that merges  *)
(* samples bottom-up into a binary cluster tree and then walks the tree to *)
(* emit prototypes.                                                        *)
(*                                                                         *)
(* Numbers.  A FLOAT32/FLOAT64 value is a rational <<num, den>> in lowest  *)
(* terms.  The FLOAT32 operations of MergeClusters, ComputeStatistics,     *)
(* Independent, MakeDimUniform, MultipleCharSamples and of the MinSamples  *)
(* argument of MakePrototype round to a binary floating-point format with  *)
(* MantBits significant bits (round to nearest, ties to even), as the code *)
(* does with 24 bits when every FLOAT32 operation is evaluated in FLOAT32; *)
(* so do the distances of the k-d tree search and the two roots taken in   *)
(* Independent.  FLOAT64 operations (pow, the chi-squared code) are exact. *)
(*                                                                         *)
(* The k-d tree, the heap and the list primitives are not part of the      *)
(* source files at hand; they are modelled from the specification (4.1,    *)
(* 4.2) and from the way the code uses them (push/first/pop as a stack).   *)
(***************************************************************************)
EXTENDS Integers, Sequences, FiniteSets, TLC

\* ------------------------------------------------------------------ bounds
\* number of MakeSample calls a behaviour may make
MaxSamples == 3
\* number of ClusterSamples calls a behaviour may make
MaxCalls == 2
\* number of MakeSample calls of the runs that examine the merges
MaxMergeSamples == 4
\* significant bits of the floating-point format (24 for FLOAT32)
MantBits == 3

\* ------------------------------------------------------- program constants
NULL == 0
MINSAMPLESNEEDED == 1
MINBUCKETS == 5
MINSAMPLESPERBUCKET == 5
MINSAMPLES == MINBUCKETS * MINSAMPLESPERBUCKET
MAXBUCKETS == 39
MAXDEGREESOFFREEDOM == MAXBUCKETS
MAXNEIGHBORS == 2

\* ---------------------------------------------------------------- rationals
RECURSIVE GCD(_, _)
GCD(a, b) == IF b = 0 THEN a ELSE GCD(b, a % b)

Abs(x) == IF x < 0 THEN -x ELSE x

\* the rational n/d in lowest terms with a positive denominator
Rat(n, d) ==
  LET s == IF d < 0 THEN -1 ELSE 1
      g == GCD(Abs(n), Abs(d))
  IN  <<(s * n) \div g, (s * d) \div g>>

\* The operations cancel common factors before they multiply, and the
\* comparison works on integer parts, so that no intermediate value is
\* larger than the operands and the result require.
FromInt(n) == <<n, 1>>
RNeg(a) == <<-a[1], a[2]>>
RAbs(a) == <<Abs(a[1]), a[2]>>
RAdd(a, b) ==
  LET g == GCD(a[2], b[2])
  IN  Rat(a[1] * (b[2] \div g) + b[1] * (a[2] \div g), a[2] * (b[2] \div g))
RSub(a, b) == RAdd(a, RNeg(b))
RMul(a, b) ==
  LET g1 == GCD(Abs(a[1]), b[2])
      g2 == GCD(Abs(b[1]), a[2])
  IN  <<(a[1] \div g1) * (b[1] \div g2), (a[2] \div g2) * (b[2] \div g1)>>
RDiv(a, b) == RMul(a, IF b[1] < 0 THEN <<-b[2], -b[1]>> ELSE <<b[2], b[1]>>)
RFloor(a) == a[1] \div a[2]
\* a1/a2 < b1/b2 for positive denominators
RECURSIVE Less(_, _, _, _)
Less(a1, a2, b1, b2) ==
  IF a1 \div a2 # b1 \div b2 THEN a1 \div a2 < b1 \div b2
  ELSE IF a1 % a2 = 0 THEN b1 % b2 > 0
  ELSE IF b1 % b2 = 0 THEN FALSE
  ELSE Less(b2, b1 % b2, a2, a1 % a2)
\* a value with denominator 0 stands for one above all numbers
RLt(a, b) ==
  IF b[2] = 0 THEN a[2] # 0
  ELSE IF a[2] = 0 THEN FALSE
  ELSE Less(a[1], a[2], b[1], b[2])
RLe(a, b) == ~RLt(b, a)

\* --------------------------------------------------- floating-point rounding
RECURSIVE Pow2(_)
Pow2(k) == IF k = 0 THEN 1 ELSE 2 * Pow2(k - 1)

\* the integer nearest to the rational q, ties to the even one
RoundHalfEven(q) ==
  LET f == q[1] \div q[2]
      r == q[1] - f * q[2]
  IN  IF 2 * r < q[2] THEN f
      ELSE IF 2 * r > q[2] THEN f + 1
      ELSE IF f % 2 = 0 THEN f ELSE f + 1

\* the unit in the last place of q > 0: the power of two u with
\* 2^(MantBits-1) <= q/u < 2^MantBits
RECURSIVE UlpOf(_, _)
UlpOf(q, u) ==
  IF RLe(FromInt(Pow2(MantBits)), RDiv(q, u)) THEN UlpOf(q, RMul(u, <<2, 1>>))
  ELSE IF RLt(RDiv(q, u), FromInt(Pow2(MantBits - 1))) THEN UlpOf(q, RMul(u, <<1, 2>>))
  ELSE u

\* q rounded to the floating-point format (the result of one FLOAT32 operation)
RoundTo(q, u) ==
  RMul(FromInt((IF q[1] < 0 THEN -1 ELSE 1) * RoundHalfEven(RDiv(RAbs(q), u))), u)

F32(q) == IF q[1] = 0 THEN q ELSE RoundTo(q, UlpOf(RAbs(q), <<1, 1>>))

\* the largest value of the format below the integer n >= 1: n rounded
\* down when it is no value of the format, else one unit below n, the units
\* being half as large below a power of two
PredOf(n) ==
  LET u == UlpOf(FromInt(n), <<1, 1>>)
      q == RDiv(FromInt(n), u)
  IN  IF q[2] # 1 THEN RMul(FromInt(RFloor(q)), u)
      ELSE IF q[1] = Pow2(MantBits - 1) THEN RSub(FromInt(n), RMul(u, <<1, 2>>))
      ELSE RSub(FromInt(n), u)

\* ------------------------------------------------------------------- inputs
\* the descriptors handed to MakeClusterer, with the fields it derives in
\* FLOAT32 (Range = Max - Min, HalfRange = Range / 2, MidRange =
\* (Max + Min) / 2): a circular essential dimension, a linear essential
\* dimension and a linear non-essential dimension
MakeParamDesc(circ, noness, min, max) ==
  [Circular |-> circ, NonEssential |-> noness,
   Min |-> F32(FromInt(min)), Max |-> F32(FromInt(max)),
   Range |-> F32(RSub(F32(FromInt(max)), F32(FromInt(min)))),
   HalfRange |-> F32(RDiv(F32(RSub(F32(FromInt(max)), F32(FromInt(min)))), <<2, 1>>)),
   MidRange |-> F32(RDiv(F32(RAdd(F32(FromInt(max)), F32(FromInt(min)))), <<2, 1>>))]

ParamDesc ==
  << MakeParamDesc(TRUE, FALSE, 0, 4),
     MakeParamDesc(FALSE, FALSE, 0, 4),
     MakeParamDesc(FALSE, TRUE, 0, 4) >>

SampleSize == Len(ParamDesc)
Dims == 1..SampleSize

\* the samples MakeSample is called with, as (Feature, CharID); every value
\* lies in [Min, Max) of its dimension and is a value of the floating-point
\* format.  The second and the third sample belong to the same character.
SampleInputs ==
  { [Feature |-> << <<0, 1>>, <<0, 1>>, <<0, 1>> >>, CharID |-> 0],
    [Feature |-> << PredOf(4), <<0, 1>>, <<1, 1>> >>, CharID |-> 1],
    [Feature |-> << <<1, 1>>, <<2, 1>>, <<0, 1>> >>, CharID |-> 1] }

\* a configuration ClusterSamples is called with
\* (ProtoStyle, MinSamples, MaxIllegal, Independence, Confidence)
MakeConfig(style, minsamples, maxillegal, indep, conf) ==
  [ProtoStyle |-> style, MinSamples |-> minsamples, MaxIllegal |-> maxillegal,
   Independence |-> indep, Confidence |-> conf]

\* the samples of the runs that examine the merges.  The last two samples
\* are a pair of near points far from the others, so that a pair found
\* before the first merge is merged after it.  Of the first four, the mean
\* of the last two is nearer to the first than each of them and than the
\* second, the neighbor it may be paired with.
MergeInputs ==
  { [Feature |-> << <<0, 1>>, <<0, 1>>, <<2, 1>> >>, CharID |-> 0],
    [Feature |-> << <<0, 1>>, <<1, 1>>, <<0, 1>> >>, CharID |-> 0],
    [Feature |-> << <<0, 1>>, <<2, 1>>, <<3, 1>> >>, CharID |-> 1],
    [Feature |-> << <<0, 1>>, <<2, 1>>, <<1, 1>> >>, CharID |-> 1],
    [Feature |-> << <<2, 1>>, PredOf(4), <<0, 1>> >>, CharID |-> 0],
    [Feature |-> << <<2, 1>>, PredOf(4), <<1, 2>> >>, CharID |-> 1] }

\* ---------------------------------------------------------------- variables
VARIABLES
  pc,               \* where the caller is: "idle", inside CreateClusterTree,
                    \* inside ComputePrototypes, "freed", "done", "crashed"
  clusters,         \* the CLUSTER structures allocated so far, by address
  NumberOfSamples,  \* Clusterer->NumberOfSamples
  NumChar,          \* Clusterer->NumChar
  Root,             \* Clusterer->Root
  KDTree,           \* Clusterer->KDTree: the clusters stored in the k-d tree
  ProtoList,        \* Clusterer->ProtoList, first element first
  Heap,             \* the heap of CreateClusterTree
  TempCluster,      \* the potential clusters of CreateClusterTree
  ClusterStack,     \* the stack of ComputePrototypes, top first
  Config,           \* the Config of the ClusterSamples call in progress
  Exception,        \* the error raised by the last MakeSample call
  OldBuckets,       \* static LIST OldBuckets[]: the pools of free histograms
  ChiWith,          \* static LIST ChiWith[]: the cache of ComputeChiSquared
  Verdicts,         \* the verdicts DistributionOK has given so far
  Allocated,        \* number of BUCKETS structures MakeBuckets has allocated
  Freed,            \* the clusters FreeCluster has released
  WroteFreed,       \* a released cluster has been written to
  Released,         \* the positions of ProtoList whose prototypes the caller
                    \* has released
  LastMade,         \* the last MakePrototype call: cluster, stage, result
  Returned,         \* what each finished ClusterSamples call returned
  nMakeSample,      \* number of MakeSample calls made
  nClusterSamples   \* number of ClusterSamples calls made

clustererVars == <<clusters, NumberOfSamples, NumChar, Root, KDTree, ProtoList>>
treeVars == <<Heap, TempCluster>>
staticVars == <<OldBuckets, ChiWith, Verdicts, Allocated>>
freeVars == <<Freed, WroteFreed, Released>>
vars == <<pc, clusters, NumberOfSamples, NumChar, Root, KDTree, ProtoList,
          Heap, TempCluster, ClusterStack, Config, Exception,
          OldBuckets, ChiWith, Verdicts, Allocated, Freed, WroteFreed, Released,
          LastMade, Returned,
          nMakeSample, nClusterSamples>>

\* a freed k-d tree (Clusterer->KDTree == NULL)
KDNULL == {NULL}
NIL == << >>
NoConfig == MakeConfig("none", <<0, 1>>, <<0, 1>>, <<0, 1>>, <<0, 1>>)

\* ----------------------------------------------------------------- k-d tree
\* squared Euclidean distance with the circular correction; a distance is
\* a FLOAT32 (Dist[] of FindNearestNeighbor, the Key of a heap entry), and
\* so is every intermediate result
Shorter(PD, a) ==
  IF PD.Circular /\ RLt(PD.HalfRange, a) THEN F32(RSub(PD.Range, a)) ELSE a
Square(a) == F32(RMul(a, a))
RECURSIVE SumOfSquares(_, _, _)
SumOfSquares(x, y, i) ==
  IF i = 0 THEN <<0, 1>>
  ELSE F32(RAdd(SumOfSquares(x, y, i - 1),
                Square(Shorter(ParamDesc[i], RAbs(F32(RSub(x[i], y[i])))))))
Distance(x, y) == SumOfSquares(x, y, SampleSize)

\* stands for MAX_FLOAT32: larger than every distance of the model
MAXDISTANCE == <<1, 0>>

\* a faulty variant of the k-nearest search: any m stored clusters, in
\* ascending order of distance
NearestOfSome(Tree, dist, m) ==
  { s \in [1..m -> Tree] :
      \A i, j \in 1..m : i < j => s[i] # s[j] /\ RLe(dist[s[i]], dist[s[j]]) }

\* the results a k-nearest search may return: the m nearest stored clusters
\* in ascending order of distance (ties in any order); dist[c] is the
\* distance of cluster c from the query
NearestOf(Tree, dist, m) ==
  { s \in [1..m -> Tree] :
      /\ \A i, j \in 1..m : i < j => s[i] # s[j] /\ RLe(dist[s[i]], dist[s[j]])
      /\ \A c \in Tree : (\A i \in 1..m : s[i] # c) =>
                           \A i \in 1..m : RLe(dist[s[i]], dist[c]) }

KDNearestNeighborSearch(cl, Tree, Query, k) ==
  NearestOf(Tree, [c \in Tree |-> Distance(cl[c].Mean, Query)],
            IF Cardinality(Tree) < k THEN Cardinality(Tree) ELSE k)

KDStore(Tree, c) == Tree \cup {c}
KDDelete(Tree, c) == Tree \ {c}
\* the payload of the root node of the tree.  The description of the index
\* does not say what an empty tree yields; the code that uses the result
\* provides for NULL (ComputePrototypes pushes Root only if it is not NULL),
\* so an empty tree yields NULL here, unless the read traps (see
\* FinishClusterTree)
RootOf(Tree) == IF Tree = {} THEN {NULL} ELSE Tree

\* -------------------------------------------------------- cluster tree code
\* one turn of the loop of FindNearestNeighbor on the result c at distance d
Closer(best, Cluster, c, d) ==
  IF RLt(d, best.Distance) /\ c # Cluster
  THEN [Neighbor |-> c, Distance |-> d] ELSE best

RECURSIVE BestNeighbor(_, _, _, _)
BestNeighbor(cl, Cluster, res, i) ==
  IF i = 0 THEN [Neighbor |-> NULL, Distance |-> MAXDISTANCE]
  ELSE Closer(BestNeighbor(cl, Cluster, res, i - 1), Cluster, res[i],
              Distance(cl[res[i]].Mean, cl[Cluster].Mean))

\* a faulty variant of FindNearestNeighbor: only the nearest cluster is asked for
FindNearestNeighborOfOne(cl, Tree, Cluster) ==
  { BestNeighbor(cl, Cluster, res, Len(res)) :
      res \in KDNearestNeighborSearch(cl, Tree, cl[Cluster].Mean, 1) }

\* the possible results of FindNearestNeighbor(Tree, Cluster, &Distance)
FindNearestNeighbor(cl, Tree, Cluster) ==
  { BestNeighbor(cl, Cluster, res, Len(res)) :
      res \in KDNearestNeighborSearch(cl, Tree, cl[Cluster].Mean, MAXNEIGHBORS) }

\* (n1 * m1 + n2 * m2) / n: the INT32 counts are converted to FLOAT32 and
\* every operation is rounded
WeightedMean(n1, n2, m1, m2) ==
  F32(RDiv(F32(RAdd(F32(RMul(F32(FromInt(n1)), m1)),
                    F32(RMul(F32(FromInt(n2)), m2)))),
           F32(FromInt(n1 + n2))))

\* (hi - lo) > HalfRange in a circular dimension
Wraps(PD, lo, hi) == PD.Circular /\ RLt(PD.HalfRange, F32(RSub(hi, lo)))

\* if (*m < Min) *m += Range
WrapUp(PD, m) == IF RLt(m, PD.Min) THEN F32(RAdd(m, PD.Range)) ELSE m

\* one dimension of MergeClusters: the mean of the merged cluster
MergeMean(PD, n1, n2, m1, m2) ==
  IF Wraps(PD, m1, m2)
  THEN WrapUp(PD, WeightedMean(n1, n2, m1, F32(RSub(m2, PD.Range))))
  ELSE IF Wraps(PD, m2, m1)
  THEN WrapUp(PD, WeightedMean(n1, n2, F32(RSub(m1, PD.Range)), m2))
  ELSE WeightedMean(n1, n2, m1, m2)

\* a faulty variant of MergeClusters: the count of the second cluster is lost
MergeClustersFirstCount(N, PD, n1, n2, m1, m2) ==
  [SampleCount |-> n1,
   Mean |-> [i \in 1..N |-> MergeMean(PD[i], n1, n2, m1[i], m2[i])]]

\* MergeClusters: the sample count it returns and the mean it writes
MergeClusters(N, PD, n1, n2, m1, m2) ==
  [SampleCount |-> n1 + n2,
   Mean |-> [i \in 1..N |-> MergeMean(PD[i], n1, n2, m1[i], m2[i])]]

\* MakeNewCluster: the cluster store and the k-d tree after the merge of
\* the potential cluster T; the new cluster gets the next free address
\* a faulty variant of NewCluster: both children are the main cluster
NewClusterSameChild(T, mc) ==
  [Clustered |-> FALSE, Prototype |-> FALSE, SampleCount |-> mc.SampleCount,
   Left |-> T.Cluster, Right |-> T.Cluster, CharID |-> -1, Mean |-> mc.Mean]

NewCluster(T, mc) ==
  [Clustered |-> FALSE, Prototype |-> FALSE, SampleCount |-> mc.SampleCount,
   Left |-> T.Cluster, Right |-> T.Neighbor, CharID |-> -1, Mean |-> mc.Mean]

\* a faulty variant of MakeNewCluster: the neighbor stays in the kd-tree
MakeNewClusterKeepsNeighbor(cl, Tree, T) ==
  [Cluster |-> Len(cl) + 1,
   clusters |-> Append([c \in 1..Len(cl) |->
                          IF c = T.Cluster \/ c = T.Neighbor
                          THEN [cl[c] EXCEPT !.Clustered = TRUE] ELSE cl[c]],
                       NewCluster(T, MergeClusters(SampleSize, ParamDesc,
                          cl[T.Cluster].SampleCount, cl[T.Neighbor].SampleCount,
                          cl[T.Cluster].Mean, cl[T.Neighbor].Mean))),
   KDTree |-> KDStore(KDDelete(Tree, T.Cluster), Len(cl) + 1)]

\* MakeNewCluster: the new cluster, the cluster store and the kd-tree
MakeNewCluster(cl, Tree, T) ==
  [Cluster |-> Len(cl) + 1,
   clusters |-> Append([c \in 1..Len(cl) |->
                          IF c = T.Cluster \/ c = T.Neighbor
                          THEN [cl[c] EXCEPT !.Clustered = TRUE] ELSE cl[c]],
                       NewCluster(T, MergeClusters(SampleSize, ParamDesc,
                          cl[T.Cluster].SampleCount, cl[T.Neighbor].SampleCount,
                          cl[T.Cluster].Mean, cl[T.Neighbor].Mean))),
   KDTree |-> KDStore(KDDelete(KDDelete(Tree, T.Cluster), T.Neighbor), Len(cl) + 1)]

\* ------------------------------------------------------- walking the samples
InitSampleSearch(Cluster) == IF Cluster = NULL THEN NIL ELSE <<Cluster>>

\* a faulty variant of NextSample: the search continues in the right
\* subcluster and the left one is pushed
NextSampleRightFirst(cl, SearchState) ==
  LET RECURSIVE Descend(_, _)
      Descend(Cluster, S) ==
        IF cl[Cluster].Left = NULL
        THEN [Sample |-> Cluster, SearchState |-> S]
        ELSE Descend(cl[Cluster].Right, <<cl[Cluster].Left>> \o S)
  IN  IF SearchState = NIL
      THEN [Sample |-> NULL, SearchState |-> NIL]
      ELSE Descend(Head(SearchState), Tail(SearchState))

\* NextSample: the next leaf under the clusters of SearchState and the
\* search state it leaves behind
NextSample(cl, SearchState) ==
  LET RECURSIVE Descend(_, _)
      Descend(Cluster, S) ==
        IF cl[Cluster].Left = NULL
        THEN [Sample |-> Cluster, SearchState |-> S]
        ELSE Descend(cl[Cluster].Left, <<cl[Cluster].Right>> \o S)
  IN  IF SearchState = NIL
      THEN [Sample |-> NULL, SearchState |-> NIL]
      ELSE Descend(Head(SearchState), Tail(SearchState))

\* the samples a loop "while ((Sample = NextSample(&SearchState)) != NULL)"
\* visits, in the order it visits them
RECURSIVE SamplesFrom(_, _)
SamplesFrom(cl, SearchState) ==
  LET r == NextSample(cl, SearchState)
  IN  IF r.Sample = NULL THEN << >>
      ELSE <<r.Sample>> \o SamplesFrom(cl, r.SearchState)

SamplesOf(cl, Cluster) == SamplesFrom(cl, InitSampleSearch(Cluster))

\* ---------------------------------------------------------------- statistics
MINVARIANCE == <<1, 250000>>
Zero == <<0, 1>>
One == <<1, 1>>

\* the coordinate x of a sample relative to the mean m of its cluster,
\* with the two wrap corrections of a circular dimension
WrapDown(PD, d) ==
  IF PD.Circular /\ RLt(PD.HalfRange, d) THEN F32(RSub(d, PD.Range)) ELSE d
WrapBack(PD, d) ==
  IF PD.Circular /\ RLt(d, RNeg(PD.HalfRange)) THEN F32(RAdd(d, PD.Range)) ELSE d
\* Distance[i] = Sample->Mean[i] - Cluster->Mean[i], a FLOAT32 difference,
\* and the corrections made on it
Deviation(PD, x, m) == WrapBack(PD, WrapDown(PD, F32(RSub(x, m))))

\* Distance[i] of ComputeStatistics for each sample S[k] of the cluster
Deviations(N, PD, cl, S, Cluster) ==
  [k \in 1..Len(S) |->
     [i \in 1..N |-> Deviation(PD[i], cl[S[k]].Mean[i], cl[Cluster].Mean[i])]]

RMin(a, b) == IF RLt(a, b) THEN a ELSE b
RMax(a, b) == IF RLt(b, a) THEN a ELSE b

RECURSIVE SumOfProducts(_, _, _, _), MinOf(_, _, _), MaxOf(_, _, _), DiagonalProduct(_, _)
SumOfProducts(D, k, i, j) ==
  IF k = 0 THEN Zero
  ELSE F32(RAdd(SumOfProducts(D, k - 1, i, j), F32(RMul(D[k][i], D[k][j]))))
MinOf(D, k, i) == IF k = 0 THEN Zero ELSE RMin(D[k][i], MinOf(D, k - 1, i))
MaxOf(D, k, i) == IF k = 0 THEN Zero ELSE RMax(D[k][i], MaxOf(D, k - 1, i))
DiagonalProduct(CoVar, i) ==
  IF i = 0 THEN One ELSE F32(RMul(DiagonalProduct(CoVar, i - 1), CoVar[i][i]))

CoVarianceOf(N, SampleCount, D) ==
  [i \in 1..N |-> [j \in 1..N |->
     F32(RDiv(SumOfProducts(D, Len(D), i, j),
              F32(FromInt(IF SampleCount > 1 THEN SampleCount - 1 ELSE 1))))]]

\* the STATISTICS record; AvgVariance is the product of the diagonal
\* variances, every step rounded, and its N-th root (pow) is kept symbolic
\* as [rad, deg]
StatisticsOf(N, CoVar, D) ==
  [AvgVariance |-> [rad |-> DiagonalProduct(CoVar, N), deg |-> N],
   CoVariance |-> CoVar,
   Min |-> [i \in 1..N |-> MinOf(D, Len(D), i)],
   Max |-> [i \in 1..N |-> MaxOf(D, Len(D), i)]]

StatisticsFrom(N, SampleCount, D) == StatisticsOf(N, CoVarianceOf(N, SampleCount, D), D)

\* ComputeStatistics: the covariance matrix of the samples of Cluster, the
\* extreme distances from the mean and the geometric mean of the diagonal
\* variances
ComputeStatistics(N, PD, cl, Cluster) ==
  StatisticsFrom(N, cl[Cluster].SampleCount,
                 Deviations(N, PD, cl, SamplesOf(cl, Cluster), Cluster))

\* a value v >= 0 with v^deg = rad is below MINVARIANCE iff
\* rad < MINVARIANCE^deg; for rad = a/b that is a * 250000^deg < b, and
\* a * 250000 * k < b holds for integers iff a * k < b/250000 rounded up
RECURSIVE BelowMinVariance(_, _)
BelowMinVariance(rad, deg) ==
  IF deg = 0 THEN rad[1] < rad[2]
  ELSE BelowMinVariance(<<rad[1],
                          (rad[2] \div MINVARIANCE[2])
                            + (IF rad[2] % MINVARIANCE[2] = 0 THEN 0 ELSE 1)>>,
                        deg - 1)

\* ---------------------------------------------------------------- prototypes
\* the NULL prototype pointer.  Variance is the FLOATUNION of the code: the
\* member a style does not use is left as in NoVariance; Spherical holds a
\* root as <<numerator, denominator, degree>> of its radicand.
NoVariance == [Spherical |-> <<0, 1, 1>>, Elliptical |-> << >>]
NoProto == [Significant |-> FALSE, Style |-> "NULL", NumSamples |-> 0,
            Cluster |-> NULL, Distrib |-> << >>, Mean |-> << >>,
            Variance |-> NoVariance]
IsNullProto(Proto) == Proto.Style = "NULL"

\* NewSimpleProto: the prototype and the mark it leaves on its cluster
NewSimpleProto(N, cl, Cluster) ==
  [Proto |-> [Significant |-> TRUE, Style |-> "spherical",
              NumSamples |-> cl[Cluster].SampleCount, Cluster |-> Cluster,
              Distrib |-> << >>, Mean |-> cl[Cluster].Mean,
              Variance |-> NoVariance],
   clusters |-> [cl EXCEPT ![Cluster].Prototype = TRUE]]

\* a root as <<numerator, denominator, degree>>, not below MINVARIANCE
FloorRoot(v) ==
  IF BelowMinVariance(v.rad, v.deg)
  THEN <<MINVARIANCE[1], MINVARIANCE[2], 1>>
  ELSE <<v.rad[1], v.rad[2], v.deg>>

NewSphericalProto(N, cl, Cluster, Statistics) ==
  [NewSimpleProto(N, cl, Cluster) EXCEPT
     !.Proto.Variance.Spherical = FloorRoot(Statistics.AvgVariance)]

NewEllipticalProto(N, cl, Cluster, Statistics) ==
  [NewSimpleProto(N, cl, Cluster) EXCEPT
     !.Proto.Variance.Elliptical =
        [i \in 1..N |-> RMax(Statistics.CoVariance[i][i], MINVARIANCE)],
     !.Proto.Style = "elliptical"]

NewMixedProto(N, cl, Cluster, Statistics) ==
  [NewEllipticalProto(N, cl, Cluster, Statistics) EXCEPT
     !.Proto.Distrib = [i \in 1..N |-> "normal"],
     !.Proto.Style = "mixed"]

\* a faulty variant of MakeDimRandom: the distribution of the dimension is
\* left as it was
MakeDimRandomKeepsDistrib(i, Proto, PD) ==
  [Proto EXCEPT !.Mean[i] = PD.MidRange,
                !.Variance.Elliptical[i] = PD.HalfRange]

MakeDimRandom(i, Proto, PD) ==
  [Proto EXCEPT !.Distrib[i] = "D_random",
                !.Mean[i] = PD.MidRange,
                !.Variance.Elliptical[i] = PD.HalfRange]

MakeDimUniform(i, Proto, cl, Statistics) ==
  [Proto EXCEPT
     !.Distrib[i] = "uniform",
     !.Mean[i] = F32(RAdd(cl[Proto.Cluster].Mean[i],
                          F32(RDiv(F32(RAdd(Statistics.Min[i], Statistics.Max[i])),
                                   <<2, 1>>)))),
     !.Variance.Elliptical[i] =
        RMax(F32(RDiv(F32(RSub(Statistics.Max[i], Statistics.Min[i])), <<2, 1>>)),
             MINVARIANCE)]

\* two faulty variants of FreePrototype: one leaves the mark of the
\* prototype on its cluster, one clears the wrong flag
FreePrototypeKeepMark(cl, Prototype) == cl
FreePrototypeWrongFlag(cl, Prototype) ==
  IF Prototype.Cluster # NULL
  THEN [cl EXCEPT ![Prototype.Cluster].Clustered = FALSE]
  ELSE cl

\* FreePrototype: the cluster store after the prototype is freed
FreePrototype(cl, Prototype) ==
  IF Prototype.Cluster # NULL
  THEN [cl EXCEPT ![Prototype.Cluster].Prototype = FALSE]
  ELSE cl

\* FreeProtoList: destroy_nodes applies FreePrototype to every element
RECURSIVE FreeProtoList(_, _)
FreeProtoList(cl, List) ==
  IF List = NIL THEN cl
  ELSE FreeProtoList(FreePrototype(cl, Head(List)), Tail(List))

\* the (INT32) (Config->MinSamples * Clusterer->NumChar) handed to
\* MakeDegenerateProto: a FLOAT32 product, truncated towards zero
MinSamplesArg(Cfg, nchar) ==
  LET q == F32(RMul(Cfg.MinSamples, F32(FromInt(nchar))))
  IN  IF q[1] < 0 THEN -RFloor(RNeg(q)) ELSE RFloor(q)

\* the prototype of the style MakeDegenerateProto allocates
NewProtoOfStyle(N, cl, Cluster, Statistics, Style) ==
  CASE Style = "spherical" -> NewSphericalProto(N, cl, Cluster, Statistics)
    [] Style \in {"elliptical", "automatic"} ->
         NewEllipticalProto(N, cl, Cluster, Statistics)
    [] OTHER -> NewMixedProto(N, cl, Cluster, Statistics)

\* a faulty variant of MakeDegenerateProto: the comparison includes equality
MakeDegenerateProtoInclusive(N, cl, Cluster, Statistics, Style, MinSamples) ==
  IF cl[Cluster].SampleCount <=
       (IF MinSamples < MINSAMPLESNEEDED THEN MINSAMPLESNEEDED ELSE MinSamples)
  THEN [NewProtoOfStyle(N, cl, Cluster, Statistics, Style) EXCEPT
          !.Proto.Significant = FALSE]
  ELSE [Proto |-> NoProto, clusters |-> cl]

\* MakeDegenerateProto: an insignificant prototype for a cluster with fewer
\* than MinSamples samples, NULL otherwise
MakeDegenerateProto(N, cl, Cluster, Statistics, Style, MinSamples) ==
  IF cl[Cluster].SampleCount <
       (IF MinSamples < MINSAMPLESNEEDED THEN MINSAMPLESNEEDED ELSE MinSamples)
  THEN [NewProtoOfStyle(N, cl, Cluster, Statistics, Style) EXCEPT
          !.Proto.Significant = FALSE]
  ELSE [Proto |-> NoProto, clusters |-> cl]

\* sqrt of a FLOAT32 argument: the value of the format nearest to the root
\* of q >= 0.  With Unit the power of two that brings the root into
\* 2^(MantBits-1) .. 2^MantBits, the root lies between n and n + 1 units and
\* is compared with n + 1/2 through the squares.
SqrtF32(q) ==
  LET RECURSIVE Unit(_)
      Unit(r) ==
        IF RLe(FromInt(Pow2(2 * MantBits)), RDiv(q, RMul(r, r)))
        THEN Unit(RMul(r, <<2, 1>>))
        ELSE IF RLt(RDiv(q, RMul(r, r)), FromInt(Pow2(2 * MantBits - 2)))
        THEN Unit(RMul(r, <<1, 2>>))
        ELSE r
      Scaled == RDiv(q, RMul(Unit(One), Unit(One)))
      n == CHOOSE k \in Pow2(MantBits - 1)..(Pow2(MantBits) - 1) :
             RLe(FromInt(k * k), Scaled) /\ RLt(Scaled, FromInt((k + 1) * (k + 1)))
      Middle == Rat((2 * n + 1) * (2 * n + 1), 4)
  IN  IF q[1] <= 0 THEN Zero
      ELSE RMul(FromInt(IF RLt(Middle, Scaled) \/ (Middle = Scaled /\ n % 2 = 1)
                        THEN n + 1 ELSE n),
                Unit(One))

\* CorrelationCoeff = sqrt(sqrt(cov * cov / (vii * vjj))) > Independence:
\* the products and the quotient are FLOAT32 operations, and each sqrt takes
\* a FLOAT32 and returns a FLOAT32 (the overload of sqrt for float)
Correlated(cov, vii, vjj, Independence) ==
  RLt(Independence,
      SqrtF32(SqrtF32(F32(RDiv(F32(RMul(cov, cov)), F32(RMul(vii, vjj)))))))

\* Independent: no pair of essential dimensions has a correlation
\* coefficient above Independence (the coefficient is 0 when a variance is)
Independent(PD, N, CoVariance, Independence) ==
  \A i, j \in 1..N :
    (i < j /\ ~PD[i].NonEssential /\ ~PD[j].NonEssential) =>
      ~ \/ RLt(Independence, Zero)
        \/ /\ CoVariance[i][i] # Zero
           /\ CoVariance[j][j] # Zero
           /\ Correlated(CoVariance[i][j], CoVariance[i][i], CoVariance[j][j],
                         Independence)

\* the CharID of each sample of S
CharIDsOf(cl, S) == [k \in 1..Len(S) |-> cl[S[k]].CharID]

\* PercentIllegal = (FLOAT32) NumIllegalInCluster / NumCharInCluster: both
\* counters are converted to FLOAT32 and the quotient is a FLOAT32 (a
\* quotient by 0 stands above all numbers)
PercentOf(NumIllegalInCluster, NumCharInCluster) ==
  IF NumCharInCluster = 0 THEN MAXDISTANCE
  ELSE F32(RDiv(F32(FromInt(NumIllegalInCluster)), F32(FromInt(NumCharInCluster))))

\* a faulty variant of the loop of MultipleCharSamples: only the second sample
\* of a character lowers NumCharInCluster and is followed by the comparison
TooManyIllegalOnSecond(ids, k, SampleCount, MaxIllegal) ==
  /\ Cardinality({m \in 1..(k - 1) : ids[m] = ids[k]}) = 1
  /\ RLt(MaxIllegal,
         PercentOf(Cardinality({m \in 1..k :
                            Cardinality({l \in 1..(m - 1) : ids[l] = ids[m]}) = 1}),
             SampleCount - Cardinality({m \in 1..k :
                            Cardinality({l \in 1..(m - 1) : ids[l] = ids[m]}) = 1})))

\* a faulty variant of TooManyIllegal: a fraction equal to MaxIllegal is too
\* much already
TooManyIllegalAtLimit(ids, k, SampleCount, MaxIllegal) ==
  /\ \E m \in 1..(k - 1) : ids[m] = ids[k]
  /\ RLe(MaxIllegal,
         PercentOf(Cardinality({m \in 1..k :
                            Cardinality({l \in 1..(m - 1) : ids[l] = ids[m]}) = 1}),
             SampleCount - Cardinality({m \in 1..k :
                                          \E l \in 1..(m - 1) : ids[l] = ids[m]})))

\* the loop of MultipleCharSamples over the character ids of the samples:
\* a sample whose character was seen before lowers NumCharInCluster, the
\* first such sample of a character raises NumIllegalInCluster, and the
\* fraction is then compared with MaxIllegal
TooManyIllegal(ids, k, SampleCount, MaxIllegal) ==
  /\ \E m \in 1..(k - 1) : ids[m] = ids[k]
  /\ RLt(MaxIllegal,
         PercentOf(Cardinality({m \in 1..k :
                            Cardinality({l \in 1..(m - 1) : ids[l] = ids[m]}) = 1}),
             SampleCount - Cardinality({m \in 1..k :
                                          \E l \in 1..(m - 1) : ids[l] = ids[m]})))

MultipleChars(ids, SampleCount, MaxIllegal) ==
  \E k \in 1..Len(ids) : TooManyIllegal(ids, k, SampleCount, MaxIllegal)

\* MultipleCharSamples: the running fraction of characters with more than
\* one sample in the cluster exceeds MaxIllegal at some sample
MultipleCharSamples(cl, Cluster, MaxIllegal) ==
  MultipleChars(CharIDsOf(cl, SamplesOf(cl, Cluster)), cl[Cluster].SampleCount,
                MaxIllegal)

\* ------------------------------------------------------------------- buckets
\* The statics of cluster.c and the verdicts of the chi-squared tests travel
\* through the prototype code as one record
\*   [clusters, OldBuckets, ChiWith, Verdicts].
\* A histogram is kept symbolically: ExpectedCount is the sequence of sample
\* counts the expected counts were computed for (the first by MakeBuckets,
\* each later one by a rescaling of AdjustBuckets; FLOAT32 rescaling need not
\* reproduce the freshly integrated values), ChiSquared is the (degrees of
\* freedom, alpha) pair Solve was run for, and Count is either the exact
\* counts of the pseudo-analysis or the data that determine the counts.
Distributions == {"normal", "uniform", "D_random"}
DegreeOffsets == [normal |-> 3, uniform |-> 3, D_random |-> 1]
CountTable == <<MINSAMPLES, 200, 400, 600, 800, 1000, 1500, 2000>>
BucketsTable == <<MINBUCKETS, 16, 20, 24, 27, 30, 35, MAXBUCKETS>>
LOOKUPTABLESIZE == 8

Odd(n) == n % 2 = 1

OptimumNumberOfBuckets(SampleCount) ==
  LET RECURSIVE scan(_)
      scan(Next) ==
        IF Next > LOOKUPTABLESIZE THEN BucketsTable[LOOKUPTABLESIZE]
        ELSE IF SampleCount <= CountTable[Next]
        THEN LET Slope == Rat(BucketsTable[Next] - BucketsTable[Next - 1],
                              CountTable[Next] - CountTable[Next - 1])
             IN  RFloor(RAdd(FromInt(BucketsTable[Next - 1]),
                             RMul(Slope, FromInt(SampleCount - CountTable[Next - 1]))))
        ELSE scan(Next + 1)
  IN  IF SampleCount < CountTable[1] THEN BucketsTable[1] ELSE scan(2)

\* a faulty variant of DegreesOfFreedom: the result is not rounded
DegreesOfFreedomNotRounded(Distribution, HistogramBuckets) ==
  HistogramBuckets - DegreeOffsets[Distribution]

DegreesOfFreedom(Distribution, HistogramBuckets) ==
  LET AdjustedNumBuckets == HistogramBuckets - DegreeOffsets[Distribution]
  IN  IF Odd(AdjustedNumBuckets) THEN AdjustedNumBuckets + 1 ELSE AdjustedNumBuckets

\* the root Solve finds for ChiArea with these parameters
Solve(dof, alpha) == [dof |-> dof, alpha |-> alpha]

\* ComputeChiSquared: the threshold and the cache after the call
FirstMatch(hits) == CHOOSE k \in hits : \A m \in hits : k <= m

ChiLookup(ChiW, dof, Alpha, hits) ==
  IF hits = {}
  THEN [ChiSquared |-> Solve(dof, Alpha),
        ChiWith |-> [ChiW EXCEPT ![dof] =
                       <<[DegreesOfFreedom |-> dof, Alpha |-> Alpha,
                          ChiSquared |-> Solve(dof, Alpha)]>> \o @]]
  ELSE [ChiSquared |-> ChiW[dof][FirstMatch(hits)].ChiSquared, ChiWith |-> ChiW]

\* a faulty variant of the search of ComputeChiSquared: nothing matches
ChiSearchFindsNone(ChiW, dof, Alpha) == ChiLookup(ChiW, dof, Alpha, {})

ChiSearch(ChiW, dof, Alpha) ==
  ChiLookup(ChiW, dof, Alpha, {k \in 1..Len(ChiW[dof]) : ChiW[dof][k].Alpha = Alpha})

\* MINALPHA = 1e-200 lies below every positive number the rationals of the
\* model can hold and above every other: Alpha < MINALPHA is Alpha <= 0.
\* The value is no rational of the model: <<1, -200>> stands for 1 * 10^-200,
\* which differs from every rational (their denominators are positive).
MINALPHA == <<1, -200>>

ComputeChiSquared(ChiW, DegreesOfFreedomIn, AlphaIn) ==
  ChiSearch(ChiW,
            IF Odd(DegreesOfFreedomIn) THEN DegreesOfFreedomIn + 1
            ELSE DegreesOfFreedomIn,
            IF RLe(AlphaIn, Zero) THEN MINALPHA
            ELSE IF RLt(One, AlphaIn) THEN One ELSE AlphaIn)

ZeroCount(n) == [i \in 1..n |-> 0]

NewBuckets(ctx, Distribution, SampleCount, Confidence, nb, chi) ==
  [Buckets |-> [Id |-> ctx.Allocated + 1,
                Distribution |-> Distribution, SampleCount |-> SampleCount,
                Confidence |-> Confidence, ChiSquared |-> chi.ChiSquared,
                NumberOfBuckets |-> nb, Count |-> ZeroCount(nb),
                ExpectedCount |-> <<SampleCount>>],
   ctx |-> [ctx EXCEPT !.ChiWith = chi.ChiWith, !.Allocated = @ + 1]]

MakeBucketsOf(ctx, Distribution, SampleCount, Confidence, nb) ==
  NewBuckets(ctx, Distribution, SampleCount, Confidence, nb,
             ComputeChiSquared(ctx.ChiWith, DegreesOfFreedom(Distribution, nb),
                               Confidence))

\* MakeBuckets: a histogram with the expected counts of Distribution for
\* SampleCount samples, and the statics after the call
MakeBuckets(ctx, Distribution, SampleCount, Confidence) ==
  MakeBucketsOf(ctx, Distribution, SampleCount, Confidence,
                OptimumNumberOfBuckets(SampleCount))

\* AdjustBuckets: every expected count is multiplied by New/Old.  A factor
\* that is a power of two is exact in binary floating point, so it only
\* replaces the last sample count of ExpectedCount; any other factor rounds
\* and adds a step.
RECURSIVE OddPart(_)
OddPart(n) == IF n > 0 /\ n % 2 = 0 THEN OddPart(n \div 2) ELSE n

Rescaled(e, NewSampleCount) ==
  IF OddPart(e[Len(e)]) = OddPart(NewSampleCount)
  THEN [e EXCEPT ![Len(e)] = NewSampleCount]
  ELSE Append(e, NewSampleCount)

\* a faulty variant of AdjustBuckets: the sample count is not brought up to
\* date
AdjustBucketsOldCount(Buckets, NewSampleCount) ==
  [Buckets EXCEPT !.ExpectedCount = Rescaled(@, NewSampleCount)]

AdjustBuckets(Buckets, NewSampleCount) ==
  [Buckets EXCEPT !.ExpectedCount = Rescaled(@, NewSampleCount),
                  !.SampleCount = NewSampleCount]

InitBuckets(Buckets) ==
  [Buckets EXCEPT !.Count = ZeroCount(Buckets.NumberOfBuckets)]

RemoveAt(seq, k) == SubSeq(seq, 1, k - 1) \o SubSeq(seq, k + 1, Len(seq))

\* the branches of GetBuckets on a histogram found in the pool
WithSampleCount(Buckets, SampleCount) ==
  IF SampleCount # Buckets.SampleCount
  THEN AdjustBuckets(Buckets, SampleCount) ELSE Buckets

SetConfidence(ctx, Buckets, Confidence, chi) ==
  [Buckets |-> InitBuckets([Buckets EXCEPT !.Confidence = Confidence,
                                           !.ChiSquared = chi.ChiSquared]),
   ctx |-> [ctx EXCEPT !.ChiWith = chi.ChiWith]]

WithConfidence(ctx, Distribution, Buckets, Confidence) ==
  IF Confidence # Buckets.Confidence
  THEN SetConfidence(ctx, Buckets, Confidence,
                     ComputeChiSquared(ctx.ChiWith,
                        DegreesOfFreedom(Distribution, Buckets.NumberOfBuckets),
                        Confidence))
  ELSE [Buckets |-> InitBuckets(Buckets), ctx |-> ctx]

TakeBuckets(ctx, Distribution, SampleCount, Confidence, hits) ==
  IF hits # {}
  THEN WithConfidence(
         [ctx EXCEPT !.OldBuckets[Distribution] = RemoveAt(@, FirstMatch(hits))],
         Distribution,
         WithSampleCount(ctx.OldBuckets[Distribution][FirstMatch(hits)], SampleCount),
         Confidence)
  ELSE MakeBuckets(ctx, Distribution, SampleCount, Confidence)

SearchBuckets(ctx, Distribution, SampleCount, Confidence, NumberOfBuckets) ==
  TakeBuckets(ctx, Distribution, SampleCount, Confidence,
              {k \in 1..Len(ctx.OldBuckets[Distribution]) :
                 ctx.OldBuckets[Distribution][k].NumberOfBuckets = NumberOfBuckets})

\* GetBuckets: the histogram handed out and the statics after the call
GetBuckets(ctx, Distribution, SampleCount, Confidence) ==
  SearchBuckets(ctx, Distribution, SampleCount, Confidence,
                OptimumNumberOfBuckets(SampleCount))

\* a faulty variant of FreeBuckets: the histogram goes to the end of the list
FreeBucketsAtEnd(ctx, Buckets) ==
  [ctx EXCEPT !.OldBuckets[Buckets.Distribution] = Append(@, Buckets)]

\* FreeBuckets: the histogram is put at the front of the list of its
\* distribution
FreeBuckets(ctx, Buckets) ==
  [ctx EXCEPT !.OldBuckets[Buckets.Distribution] = <<Buckets>> \o @]

\* the pseudo-analysis of FillBuckets on the values x of the samples
PseudoBucket(nb, Mean, x, k) ==
  IF RLt(Mean, x[k]) THEN nb - 1
  ELSE IF RLt(x[k], Mean) THEN 0
  ELSE (k - 1) % nb

PseudoCount(nb, Mean, x) ==
  [b \in 1..nb |-> Cardinality({k \in 1..Len(x) : PseudoBucket(nb, Mean, x, k) = b - 1})]

\* the counts of FillBuckets: those of the pseudo-analysis if StdDev is
\* zero, else the data NormalBucket or UniformBucket compute them from
CountOf(nb, PD, Mean, StdDev, x) ==
  IF StdDev.rad = Zero THEN PseudoCount(nb, Mean, x)
  ELSE <<[Circular |-> PD.Circular, Mean |-> Mean, StdDev |-> StdDev, x |-> x]>>

ValuesOf(cl, S, Dim) == [k \in 1..Len(S) |-> cl[S[k]].Mean[Dim]]

\* FillBuckets: the histogram of dimension Dim of the samples of Cluster.
\* StdDev is a root [rad, deg]; it is zero exactly when rad is.
FillBuckets(Buckets, cl, Cluster, Dim, PD, Mean, StdDev) ==
  [Buckets EXCEPT !.Count = CountOf(Buckets.NumberOfBuckets, PD, Mean, StdDev,
                                    ValuesOf(cl, SamplesOf(cl, Cluster), Dim))]

\* DistributionOK compares a statistic computed from Count and ExpectedCount
\* with ChiSquared: its verdict is a function of these fields.  Verdicts
\* remembers the verdict given for each histogram met so far; a histogram
\* not met before may get either verdict.
TestKey(Buckets) ==
  [Distribution |-> Buckets.Distribution, NumberOfBuckets |-> Buckets.NumberOfBuckets,
   Count |-> Buckets.Count, ExpectedCount |-> Buckets.ExpectedCount,
   ChiSquared |-> Buckets.ChiSquared]

Verdict(ctx, Key, known) ==
  IF known # {}
  THEN {[OK |-> v.OK, ctx |-> ctx] : v \in known}
  ELSE {[OK |-> ok,
         ctx |-> [ctx EXCEPT !.Verdicts = @ \cup {[Key |-> Key, OK |-> ok]}]] :
         ok \in BOOLEAN}

VerdictFor(ctx, Key) == Verdict(ctx, Key, {v \in ctx.Verdicts : v.Key = Key})

DistributionOK(ctx, Buckets) == VerdictFor(ctx, TestKey(Buckets))

\* ------------------------------------------------------- prototype formation
\* Each of the following yields the set of possible results
\* [Proto, ctx, Buckets], one for every combination of test verdicts.
Sqrt(rad, deg) == [rad |-> rad, deg |-> 2 * deg]

\* the loop "check that each dimension is a normal distribution": the i-th
\* essential dimension is tested with the standard deviation StdDev[i]
RECURSIVE NormalDims(_, _, _, _, _, _, _)
NormalDimTest(N, PD, Cluster, StdDev, i, c, B) ==
  UNION {IF r.OK THEN NormalDims(N, PD, Cluster, StdDev, i + 1, r.ctx, B)
         ELSE {[OK |-> FALSE, ctx |-> r.ctx, Buckets |-> B]} :
         r \in DistributionOK(c, B)}

NormalDims(N, PD, Cluster, StdDev, i, c, B) ==
  IF i > N THEN {[OK |-> TRUE, ctx |-> c, Buckets |-> B]}
  ELSE IF PD[i].NonEssential THEN NormalDims(N, PD, Cluster, StdDev, i + 1, c, B)
  ELSE NormalDimTest(N, PD, Cluster, StdDev, i, c,
                     FillBuckets(B, c.clusters, Cluster, i, PD[i],
                                 c.clusters[Cluster].Mean[i], StdDev[i]))

ProtoResult(p, r) ==
  [Proto |-> p.Proto, ctx |-> [r.ctx EXCEPT !.clusters = p.clusters],
   Buckets |-> r.Buckets, Tests |-> << >>]
NullResult(r) ==
  [Proto |-> NoProto, ctx |-> r.ctx, Buckets |-> r.Buckets, Tests |-> << >>]

MakeSphericalProto(N, PD, ctx, Cluster, Statistics, Buckets) ==
  {IF r.OK
   THEN ProtoResult(NewSphericalProto(N, r.ctx.clusters, Cluster, Statistics), r)
   ELSE NullResult(r) :
   r \in NormalDims(N, PD, Cluster,
                    [i \in 1..N |-> Sqrt(Statistics.AvgVariance.rad,
                                         Statistics.AvgVariance.deg)],
                    1, ctx, Buckets)}

MakeEllipticalProto(N, PD, ctx, Cluster, Statistics, Buckets) ==
  {IF r.OK
   THEN ProtoResult(NewEllipticalProto(N, r.ctx.clusters, Cluster, Statistics), r)
   ELSE NullResult(r) :
   r \in NormalDims(N, PD, Cluster,
                    [i \in 1..N |-> Sqrt(Statistics.CoVariance[i][i], 1)],
                    1, ctx, Buckets)}

\* The loop state st of MakeMixedProto: the prototype under construction,
\* the statics and the three histograms (hasRandom and hasUniform tell
\* whether RandomBuckets and UniformBuckets are non-NULL).  Tests lists the
\* DistributionOK calls of the loop so far: dimension, distribution, verdict.
MixedStart(ctx, p, NormalBuckets) ==
  [Proto |-> p.Proto, ctx |-> [ctx EXCEPT !.clusters = p.clusters],
   Tests |-> << >>,
   NormalBuckets |-> NormalBuckets,
   hasRandom |-> FALSE, RandomBuckets |-> NormalBuckets,
   hasUniform |-> FALSE, UniformBuckets |-> NormalBuckets]

\* DistributionOK on the filled histogram B, kept as st[which]
Tested(st, which, B, i) ==
  {[OK |-> r.OK,
    st |-> [st EXCEPT !.ctx = r.ctx, ![which] = B,
                      !.Tests = Append(@, [Dim |-> i,
                                           Distribution |-> B.Distribution,
                                           OK |-> r.OK])]] :
   r \in DistributionOK(st.ctx, B)}

TryNormal(PD, Cluster, i, st) ==
  Tested(st, "NormalBuckets",
         FillBuckets(st.NormalBuckets, st.ctx.clusters, Cluster, i, PD[i],
                     st.Proto.Mean[i], Sqrt(st.Proto.Variance.Elliptical[i], 1)),
         i)

TakeInto(st, which, has, g) ==
  [st EXCEPT !.ctx = g.ctx, ![which] = g.Buckets, ![has] = TRUE]

TestAlternate(PD, Cluster, i, st, which) ==
  Tested(st, which,
         FillBuckets(st[which], st.ctx.clusters, Cluster, i, PD[i],
                     st.Proto.Mean[i],
                     [rad |-> st.Proto.Variance.Elliptical[i], deg |-> 1]),
         i)

WithRandomBuckets(st, Cluster, Confidence) ==
  IF st.hasRandom THEN st
  ELSE TakeInto(st, "RandomBuckets", "hasRandom",
                GetBuckets(st.ctx, "D_random",
                           st.ctx.clusters[Cluster].SampleCount, Confidence))

RandomDim(PD, i, st) == [st EXCEPT !.Proto = MakeDimRandom(i, @, PD[i])]

TryRandom(PD, Cluster, Confidence, i, st) ==
  TestAlternate(PD, Cluster, i,
                RandomDim(PD, i, WithRandomBuckets(st, Cluster, Confidence)),
                "RandomBuckets")

WithUniformBuckets(st, Cluster, Confidence) ==
  IF st.hasUniform THEN st
  ELSE TakeInto(st, "UniformBuckets", "hasUniform",
                GetBuckets(st.ctx, "uniform",
                           st.ctx.clusters[Cluster].SampleCount, Confidence))

UniformDim(Statistics, i, st) ==
  [st EXCEPT !.Proto = MakeDimUniform(i, @, st.ctx.clusters, Statistics)]

TryUniform(PD, Cluster, Statistics, Confidence, i, st) ==
  TestAlternate(PD, Cluster, i,
                UniformDim(Statistics, i, WithUniformBuckets(st, Cluster, Confidence)),
                "UniformBuckets")

\* a faulty variant of Discard: the prototype of a failed fit is dropped
\* without FreePrototype
DiscardForgetsFree(failed, st) ==
  IF failed THEN [st EXCEPT !.Proto = NoProto] ELSE st

\* the end of MakeMixedProto
Discard(failed, st) ==
  IF failed
  THEN [st EXCEPT !.ctx.clusters = FreePrototype(@, st.Proto), !.Proto = NoProto]
  ELSE st
ReleaseUniform(st) ==
  IF st.hasUniform THEN [st EXCEPT !.ctx = FreeBuckets(@, st.UniformBuckets)] ELSE st
ReleaseRandom(st) ==
  IF st.hasRandom THEN [st EXCEPT !.ctx = FreeBuckets(@, st.RandomBuckets)] ELSE st
MixedResult(st) ==
  [Proto |-> st.Proto, ctx |-> st.ctx, Buckets |-> st.NormalBuckets,
   Tests |-> st.Tests]
\* a faulty variant of the end of MakeMixedProto: a failed fit returns at once
MixedFinishFailedReturns(failed, st) ==
  IF failed THEN MixedResult(Discard(failed, st))
  ELSE MixedResult(ReleaseRandom(ReleaseUniform(st)))
MixedFinish(failed, st) ==
  MixedResult(ReleaseRandom(ReleaseUniform(Discard(failed, st))))

\* the loop "find the proper distribution for each dimension"
RECURSIVE MixedLoop(_, _, _, _, _, _, _)
MixedLoop(N, PD, Cluster, Statistics, Confidence, i, st) ==
  IF i > N THEN {MixedFinish(FALSE, st)}
  ELSE IF PD[i].NonEssential
  THEN MixedLoop(N, PD, Cluster, Statistics, Confidence, i + 1, st)
  ELSE UNION {
    IF a.OK THEN MixedLoop(N, PD, Cluster, Statistics, Confidence, i + 1, a.st)
    ELSE UNION {
      IF b.OK THEN MixedLoop(N, PD, Cluster, Statistics, Confidence, i + 1, b.st)
      ELSE UNION {
        IF c.OK THEN MixedLoop(N, PD, Cluster, Statistics, Confidence, i + 1, c.st)
        ELSE {MixedFinish(TRUE, c.st)} :
        c \in TryUniform(PD, Cluster, Statistics, Confidence, i, b.st)} :
      b \in TryRandom(PD, Cluster, Confidence, i, a.st)} :
    a \in TryNormal(PD, Cluster, i, st)}

MakeMixedProto(N, PD, ctx, Cluster, Statistics, NormalBuckets, Confidence) ==
  MixedLoop(N, PD, Cluster, Statistics, Confidence, 1,
            MixedStart(ctx, NewMixedProto(N, ctx.clusters, Cluster, Statistics),
                       NormalBuckets))

\* the switch of MakePrototype on Config->ProtoStyle.  Tried lists the
\* Make...Proto calls made so far, each with whether it returned a prototype.
Attempt(Style, Tried, Results) ==
  {[Proto |-> r.Proto, ctx |-> r.ctx, Buckets |-> r.Buckets,
    Tried |-> Append(Tried, [Style |-> Style, Made |-> ~IsNullProto(r.Proto),
                             Tests |-> r.Tests, Distrib |-> r.Proto.Distrib])] :
   r \in Results}

AutomaticElliptical(N, PD, Cfg, Cluster, Statistics, c, B, Tried) ==
  UNION {IF ~IsNullProto(r.Proto) THEN {r}
         ELSE Attempt("mixed", r.Tried,
                      MakeMixedProto(N, PD, r.ctx, Cluster, Statistics, r.Buckets,
                                     Cfg.Confidence)) :
         r \in Attempt("elliptical", Tried,
                       MakeEllipticalProto(N, PD, c, Cluster, Statistics, B))}

\* a faulty variant of Automatic: the elliptical prototype is tried first
AutomaticEllipticalFirst(N, PD, Cfg, Cluster, Statistics, c, B) ==
  UNION {IF ~IsNullProto(r.Proto) THEN {r}
         ELSE Attempt("mixed", r.Tried,
                      MakeMixedProto(N, PD, r.ctx, Cluster, Statistics, r.Buckets,
                                     Cfg.Confidence)) :
         r \in UNION {IF ~IsNullProto(e.Proto) THEN {e}
                      ELSE Attempt("spherical", e.Tried,
                                   MakeSphericalProto(N, PD, e.ctx, Cluster,
                                                      Statistics, e.Buckets)) :
                      e \in Attempt("elliptical", << >>,
                                    MakeEllipticalProto(N, PD, c, Cluster,
                                                        Statistics, B))}}

Automatic(N, PD, Cfg, Cluster, Statistics, c, B) ==
  UNION {IF ~IsNullProto(r.Proto) THEN {r}
         ELSE AutomaticElliptical(N, PD, Cfg, Cluster, Statistics, r.ctx, r.Buckets,
                                  r.Tried) :
         r \in Attempt("spherical", << >>,
                       MakeSphericalProto(N, PD, c, Cluster, Statistics, B))}

ByStyle(N, PD, Cfg, Cluster, Statistics, c, B) ==
  CASE Cfg.ProtoStyle = "spherical" ->
         Attempt("spherical", << >>,
                 MakeSphericalProto(N, PD, c, Cluster, Statistics, B))
    [] Cfg.ProtoStyle = "elliptical" ->
         Attempt("elliptical", << >>,
                 MakeEllipticalProto(N, PD, c, Cluster, Statistics, B))
    [] Cfg.ProtoStyle = "mixed" ->
         Attempt("mixed", << >>,
                 MakeMixedProto(N, PD, c, Cluster, Statistics, B, Cfg.Confidence))
    [] OTHER -> Automatic(N, PD, Cfg, Cluster, Statistics, c, B)

\* the histogram g is tested and given back
TestDistributions(N, PD, Cfg, Cluster, Statistics, g) ==
  {[Proto |-> r.Proto, ctx |-> FreeBuckets(r.ctx, r.Buckets),
    Stage |-> "DistributionOK", Tried |-> r.Tried] :
   r \in ByStyle(N, PD, Cfg, Cluster, Statistics, g.ctx, g.Buckets)}

AfterDegenerate(N, PD, ctx, Cfg, Cluster, Statistics, deg) ==
  IF ~IsNullProto(deg.Proto)
  THEN {[Proto |-> deg.Proto, ctx |-> [ctx EXCEPT !.clusters = deg.clusters],
         Stage |-> "MakeDegenerateProto", Tried |-> << >>]}
  ELSE IF ~Independent(PD, N, Statistics.CoVariance, Cfg.Independence)
  THEN {[Proto |-> NoProto, ctx |-> ctx, Stage |-> "Independent",
         Tried |-> << >>]}
  ELSE TestDistributions(N, PD, Cfg, Cluster, Statistics,
                         GetBuckets(ctx, "normal", ctx.clusters[Cluster].SampleCount,
                                    Cfg.Confidence))

AfterStatistics(N, PD, ctx, Cfg, nchar, Cluster, Statistics) ==
  AfterDegenerate(N, PD, ctx, Cfg, Cluster, Statistics,
                  MakeDegenerateProto(N, ctx.clusters, Cluster, Statistics,
                                      Cfg.ProtoStyle, MinSamplesArg(Cfg, nchar)))

\* MakePrototype: the possible results [Proto, ctx, Stage, Tried]; Stage
\* names the return statement taken
MakePrototype(N, PD, ctx, Cfg, nchar, Cluster) ==
  IF MultipleCharSamples(ctx.clusters, Cluster, Cfg.MaxIllegal)
  THEN {[Proto |-> NoProto, ctx |-> ctx, Stage |-> "MultipleCharSamples",
         Tried |-> << >>]}
  ELSE AfterStatistics(N, PD, ctx, Cfg, nchar, Cluster,
                       ComputeStatistics(N, PD, ctx.clusters, Cluster))

\* ------------------------------------------------------------------- states
Ctx == [clusters |-> clusters, OldBuckets |-> OldBuckets,
        ChiWith |-> ChiWith, Verdicts |-> Verdicts, Allocated |-> Allocated]

\* MakeClusterer, with the statics as the program starts with them
Init ==
  /\ pc = "idle"
  /\ clusters = << >>
  /\ NumberOfSamples = 0
  /\ NumChar = 0
  /\ Root = NULL
  /\ KDTree = {}
  /\ ProtoList = NIL
  /\ Heap = {}
  /\ TempCluster = << >>
  /\ ClusterStack = NIL
  /\ Config = NoConfig
  /\ Exception = "none"
  /\ OldBuckets = [d \in Distributions |-> NIL]
  /\ ChiWith = [d \in 0..MAXDEGREESOFFREEDOM |-> NIL]
  /\ Verdicts = {}
  /\ Allocated = 0
  /\ Freed = {}
  /\ WroteFreed = FALSE
  /\ Released = {}
  /\ LastMade = [Cluster |-> NULL, Stage |-> "none", Made |-> FALSE,
                 Tried |-> << >>, Style |-> "NULL", Significant |-> FALSE,
                 Config |-> NoConfig, NumChar |-> 0, Dropped |-> {}]
  /\ Returned = << >>
  /\ nMakeSample = 0
  /\ nClusterSamples = 0

\* ---------------------------------------------------------------- MakeSample
NewSample(Feature, CharID) ==
  [Clustered |-> FALSE, Prototype |-> FALSE, SampleCount |-> 1,
   Left |-> NULL, Right |-> NULL, CharID |-> CharID, Mean |-> Feature]

MakeSample(Feature, CharID) ==
  /\ pc = "idle"
  /\ nMakeSample' = nMakeSample + 1
  /\ IF Root # NULL
     THEN \* DoError(ALREADYCLUSTERED, ...)
          /\ Exception' = "ALREADYCLUSTERED"
          /\ UNCHANGED <<pc, clustererVars>>
     ELSE /\ Exception' = "none"
          /\ clusters' = Append(clusters, NewSample(Feature, CharID))
          /\ NumberOfSamples' = NumberOfSamples + 1
          /\ IF KDTree = KDNULL
             THEN \* KDStore dereferences the NULL tree
                  /\ pc' = "crashed"
                  /\ UNCHANGED <<KDTree, NumChar>>
             ELSE /\ KDTree' = KDStore(KDTree, Len(clusters) + 1)
                  /\ NumChar' = IF CharID >= NumChar THEN CharID + 1 ELSE NumChar
                  /\ pc' = pc
          /\ UNCHANGED <<Root, ProtoList>>
  /\ UNCHANGED <<treeVars, ClusterStack, Config, staticVars, freeVars,
                 LastMade, Returned, nClusterSamples>>

\* ------------------------------------------------------------ ClusterSamples
\* KDWalk visits every stored cluster; here in the order of their addresses
RECURSIVE KDWalk(_)
KDWalk(Tree) ==
  IF Tree = {} THEN NIL
  ELSE LET c == CHOOSE x \in Tree : \A y \in Tree : x <= y
       IN  <<c>> \o KDWalk(Tree \ {c})

\* the heap: a set of entries [Key, Data], Data an index into TempCluster
HeapStore(H, Entry) == H \cup {Entry}
\* the entries GetTopOfHeap may deliver: those of the smallest key
HeapTop(H) == {e \in H : \A f \in H : RLe(e.Key, f.Key)}

\* a faulty variant of MakePotentialClusters: the key of the entry is not
\* the distance FindNearestNeighbor delivered
RECURSIVE MakePotentialClustersNoKey(_, _, _, _, _)
MakePotentialClustersNoKey(cl, Tree, Walk, T, H) ==
  IF Walk = NIL THEN {[TempCluster |-> T, Heap |-> H]}
  ELSE UNION {
    IF r.Neighbor # NULL
    THEN MakePotentialClustersNoKey(cl, Tree, Tail(Walk),
           Append(T, [Cluster |-> Head(Walk), Neighbor |-> r.Neighbor]),
           HeapStore(H, [Key |-> Zero, Data |-> Len(T) + 1]))
    ELSE MakePotentialClustersNoKey(cl, Tree, Tail(Walk), T, H) :
    r \in FindNearestNeighbor(cl, Tree, Head(Walk))}

\* MakePotentialClusters applied to the clusters in Walk: the possible
\* potential clusters and heaps
RECURSIVE MakePotentialClusters(_, _, _, _, _)
MakePotentialClusters(cl, Tree, Walk, T, H) ==
  IF Walk = NIL THEN {[TempCluster |-> T, Heap |-> H]}
  ELSE UNION {
    IF r.Neighbor # NULL
    THEN MakePotentialClusters(cl, Tree, Tail(Walk),
           Append(T, [Cluster |-> Head(Walk), Neighbor |-> r.Neighbor]),
           HeapStore(H, [Key |-> r.Distance, Data |-> Len(T) + 1]))
    ELSE MakePotentialClusters(cl, Tree, Tail(Walk), T, H) :
    r \in FindNearestNeighbor(cl, Tree, Head(Walk))}

\* the part of ClusterSamples after CreateClusterTree, up to the loop of
\* ComputePrototypes
StartComputePrototypes(root) ==
  /\ clusters' = FreeProtoList(clusters, ProtoList)
  /\ ProtoList' = NIL
  /\ ClusterStack' = IF root # NULL THEN <<root>> ELSE NIL
  /\ pc' = "ComputePrototypes"

ClusterSamples(Cfg) ==
  /\ pc = "idle"
  /\ nClusterSamples < MaxCalls
  /\ nClusterSamples' = nClusterSamples + 1
  /\ Config' = Cfg
  /\ IF Root # NULL
     THEN \* FreeProtoList (&Clusterer->ProtoList) walks a list the caller may
          \* have released: the walk through the released nodes may trap or
          \* find them as they were
          /\ \E trap \in (IF Released # {} THEN BOOLEAN ELSE {FALSE}) :
               IF trap
               THEN /\ pc' = "crashed"
                    /\ UNCHANGED <<clusters, ProtoList, ClusterStack, Released>>
               ELSE /\ StartComputePrototypes(Root)
                    /\ Released' = {}
          /\ UNCHANGED treeVars
     ELSE IF KDTree = KDNULL
     THEN \* CreateClusterTree walks the NULL tree
          /\ pc' = "crashed"
          /\ UNCHANGED <<clusters, ProtoList, ClusterStack, treeVars, Released>>
     ELSE /\ \E seed \in MakePotentialClusters(clusters, KDTree, KDWalk(KDTree),
                                               << >>, {}) :
               /\ TempCluster' = seed.TempCluster
               /\ Heap' = seed.Heap
          /\ pc' = "CreateClusterTree"
          /\ UNCHANGED <<clusters, ProtoList, ClusterStack, Released>>
  /\ LastMade' = [LastMade EXCEPT !.Dropped = {}]
  /\ UNCHANGED <<NumberOfSamples, NumChar, Root, KDTree, Exception, staticVars,
                 Freed, WroteFreed, Returned, nMakeSample>>

\* --------------------------------------------- the loop of CreateClusterTree
loopFrame == <<NumberOfSamples, NumChar, Root, ProtoList, ClusterStack, Config,
               Exception, staticVars, freeVars, LastMade, Returned,
               nMakeSample, nClusterSamples, pc>>

\* the main cluster of the potential cluster on top is already clustered
SkipClustered ==
  /\ pc = "CreateClusterTree"
  /\ \E e \in HeapTop(Heap) :
       /\ clusters[TempCluster[e.Data].Cluster].Clustered
       /\ Heap' = Heap \ {e}
  /\ UNCHANGED <<clusters, KDTree, TempCluster, loopFrame>>

\* a faulty variant of RenewNeighbor: the neighbor is looked at before the
\* main cluster
RenewNeighborAnyMain ==
  /\ pc = "CreateClusterTree"
  /\ \E e \in HeapTop(Heap) :
       \E P \in {TempCluster[e.Data]} :
         /\ clusters[P.Neighbor].Clustered
         /\ \E r \in FindNearestNeighbor(clusters, KDTree, P.Cluster) :
              /\ TempCluster' = [TempCluster EXCEPT ![e.Data].Neighbor = r.Neighbor]
              /\ Heap' = IF r.Neighbor # NULL
                         THEN HeapStore(Heap \ {e},
                                        [Key |-> r.Distance, Data |-> e.Data])
                         ELSE Heap \ {e}
  /\ UNCHANGED <<clusters, KDTree, loopFrame>>

\* a faulty variant of RenewNeighbor: the new neighbor is another cluster
\* that is clustered already, pushed under the old key
RenewNeighborToClustered ==
  /\ pc = "CreateClusterTree"
  /\ \E e \in HeapTop(Heap) :
       \E P \in {TempCluster[e.Data]} :
         /\ ~clusters[P.Cluster].Clustered
         /\ clusters[P.Neighbor].Clustered
         /\ \E n \in {c \in DOMAIN clusters :
                        clusters[c].Clustered /\ c # P.Neighbor} :
              /\ TempCluster' = [TempCluster EXCEPT ![e.Data].Neighbor = n]
              /\ Heap' = HeapStore(Heap \ {e}, e)
  /\ UNCHANGED <<clusters, KDTree, loopFrame>>

\* only its neighbor is clustered: look for a new nearest neighbor
RenewNeighbor ==
  /\ pc = "CreateClusterTree"
  /\ \E e \in HeapTop(Heap) :
       \E P \in {TempCluster[e.Data]} :
         /\ ~clusters[P.Cluster].Clustered
         /\ clusters[P.Neighbor].Clustered
         /\ \E r \in FindNearestNeighbor(clusters, KDTree, P.Cluster) :
              /\ TempCluster' = [TempCluster EXCEPT ![e.Data].Neighbor = r.Neighbor]
              /\ Heap' = IF r.Neighbor # NULL
                         THEN HeapStore(Heap \ {e},
                                        [Key |-> r.Distance, Data |-> e.Data])
                         ELSE Heap \ {e}
  /\ UNCHANGED <<clusters, KDTree, loopFrame>>

\* a faulty variant of FormCluster: the entry on top is read but left in the
\* heap
FormClusterKeepsTop ==
  /\ pc = "CreateClusterTree"
  /\ \E e \in HeapTop(Heap) :
       \E P \in {TempCluster[e.Data]} :
         /\ ~clusters[P.Cluster].Clustered
         /\ ~clusters[P.Neighbor].Clustered
         /\ \E m \in {MakeNewCluster(clusters, KDTree, P)} :
              /\ clusters' = m.clusters
              /\ KDTree' = m.KDTree
              /\ \E r \in FindNearestNeighbor(m.clusters, m.KDTree, m.Cluster) :
                   /\ TempCluster' = Append(TempCluster,
                                            [Cluster |-> m.Cluster,
                                             Neighbor |-> r.Neighbor])
                   /\ Heap' = IF r.Neighbor # NULL
                              THEN HeapStore(Heap, [Key |-> r.Distance,
                                                    Data |-> Len(TempCluster) + 1])
                              ELSE Heap
  /\ UNCHANGED loopFrame

\* neither is clustered: form the permanent cluster
FormCluster ==
  /\ pc = "CreateClusterTree"
  /\ \E e \in HeapTop(Heap) :
       \E P \in {TempCluster[e.Data]} :
         /\ ~clusters[P.Cluster].Clustered
         /\ ~clusters[P.Neighbor].Clustered
         /\ \E m \in {MakeNewCluster(clusters, KDTree, P)} :
              /\ clusters' = m.clusters
              /\ KDTree' = m.KDTree
              /\ \E r \in FindNearestNeighbor(m.clusters, m.KDTree, m.Cluster) :
                   /\ TempCluster' = [TempCluster EXCEPT
                                        ![e.Data] = [Cluster |-> m.Cluster,
                                                     Neighbor |-> r.Neighbor]]
                   /\ Heap' = IF r.Neighbor # NULL
                              THEN HeapStore(Heap \ {e},
                                             [Key |-> r.Distance, Data |-> e.Data])
                              ELSE Heap \ {e}
  /\ UNCHANGED loopFrame

\* the heap is empty: Root = RootOf(KDTree), the work data are freed and
\* ClusterSamples goes on.  RootOf reads through the root link of the tree,
\* which is NULL in an empty tree: the read may deliver NULL or trap.
FinishClusterTree ==
  /\ pc = "CreateClusterTree"
  /\ Heap = {}
  /\ \E r \in RootOf(KDTree), trap \in (IF KDTree = {} THEN BOOLEAN ELSE {FALSE}) :
       IF trap
       THEN /\ pc' = "crashed"
            /\ UNCHANGED <<clusters, Root, KDTree, ProtoList, ClusterStack, treeVars>>
       ELSE /\ Root' = r
            /\ KDTree' = KDNULL
            /\ TempCluster' = << >>
            /\ Heap' = {}
            /\ StartComputePrototypes(r)
  /\ UNCHANGED <<NumberOfSamples, NumChar, Config, Exception, staticVars, freeVars,
                 LastMade, Returned, nMakeSample, nClusterSamples>>

\* --------------------------------------------- the loop of ComputePrototypes
\* push (Clusterer->ProtoList, Prototype): the new element is the first
PushPrototype(List, Prototype) == <<Prototype>> \o List

\* a faulty variant of PushChildren: the right child ends on top
PushChildrenRightFirst(Stack, cl, Cluster) ==
  <<cl[Cluster].Right, cl[Cluster].Left>> \o Stack

\* the two pushes of a rejected cluster: Right, then Left, which ends on top
PushChildren(Stack, cl, Cluster) ==
  <<cl[Cluster].Left, cl[Cluster].Right>> \o Stack

AnalyzeCluster ==
  /\ pc = "ComputePrototypes"
  /\ ClusterStack # NIL
  /\ \E Cluster \in {Head(ClusterStack)} :
     IF Cluster = NULL
     THEN \* MakePrototype reads through the NULL cluster
          /\ pc' = "crashed"
          /\ ClusterStack' = Tail(ClusterStack)
          /\ UNCHANGED <<clusters, ProtoList, staticVars, LastMade>>
     ELSE \E r \in MakePrototype(SampleSize, ParamDesc, Ctx, Config, NumChar, Cluster) :
            /\ clusters' = r.ctx.clusters
            /\ OldBuckets' = r.ctx.OldBuckets
            /\ ChiWith' = r.ctx.ChiWith
            /\ Verdicts' = r.ctx.Verdicts
            /\ Allocated' = r.ctx.Allocated
            /\ LastMade' = [Cluster |-> Cluster, Stage |-> r.Stage,
                            Tried |-> r.Tried, Style |-> r.Proto.Style,
                            Made |-> ~IsNullProto(r.Proto),
                            Significant |-> r.Proto.Significant,
                            Config |-> Config, NumChar |-> NumChar,
                            \* the clusters a Mixed prototype was built
                            \* for and freed again in MakeMixedProto
                            Dropped |-> LastMade.Dropped \cup
                              {c \in {Cluster} : \E k \in 1..Len(r.Tried) :
                                 r.Tried[k].Style = "mixed" /\ ~r.Tried[k].Made}]
            /\ IF ~IsNullProto(r.Proto)
               THEN /\ ProtoList' = PushPrototype(ProtoList, r.Proto)
                    /\ ClusterStack' = Tail(ClusterStack)
               ELSE /\ ProtoList' = ProtoList
                    /\ ClusterStack' = PushChildren(Tail(ClusterStack), clusters, Cluster)
            /\ pc' = pc
  /\ UNCHANGED <<NumberOfSamples, NumChar, Root, KDTree, treeVars, Config, Exception,
                 freeVars, Returned, nMakeSample, nClusterSamples>>

\* the stack is empty: ClusterSamples returns Clusterer->ProtoList
ReturnProtoList ==
  /\ pc = "ComputePrototypes"
  /\ ClusterStack = NIL
  /\ pc' = "idle"
  /\ Returned' = Append(Returned, [Config |-> Config, ProtoList |-> ProtoList])
  /\ UNCHANGED <<clustererVars, treeVars, ClusterStack, Config, Exception, staticVars,
                 freeVars, LastMade, nMakeSample, nClusterSamples>>

\* ------------------------------------------------------------- FreeClusterer
\* FreeCluster: the clusters released, those of the subtree of Cluster
RECURSIVE FreeCluster(_, _)
FreeCluster(cl, Cluster) ==
  IF Cluster = NULL THEN {}
  ELSE FreeCluster(cl, cl[Cluster].Left) \cup FreeCluster(cl, cl[Cluster].Right)
         \cup {Cluster}

\* a faulty variant of ClearClusterLinks: the back-references are kept
KeepClusterLinks(List) == List

\* the loop of FreeClusterer over the prototype list
ClearClusterLinks(List) == [k \in 1..Len(List) |-> [List[k] EXCEPT !.Cluster = NULL]]

\* FreeClusterer: the clusters are freed first, and then the loop writes
\* into the prototypes of the list, which the caller may have released.
\* The write into a released prototype may trap or go through; when it
\* traps the clusters are freed already, and the prototypes that stand
\* before the first released one have been written
FreeClusterer ==
  /\ pc = "idle"
  /\ Freed' = FreeCluster(clusters, Root)
  /\ \E trap \in (IF Released # {} THEN BOOLEAN ELSE {FALSE}) :
       IF trap
       THEN /\ pc' = "crashed"
            /\ ProtoList' = [k \in 1..Len(ProtoList) |->
                               IF \A j \in Released : k < j
                               THEN ClearClusterLinks(ProtoList)[k]
                               ELSE ProtoList[k]]
       ELSE /\ pc' = "freed"
            /\ ProtoList' = ClearClusterLinks(ProtoList)
  /\ UNCHANGED <<clusters, NumberOfSamples, NumChar, Root, KDTree, treeVars,
                 ClusterStack, Config, Exception, staticVars, WroteFreed,
                 Released, LastMade, Returned, nMakeSample, nClusterSamples>>

\* the caller disposes of the list it got from ClusterSamples: after
\* FreeClusterer, or while the clusterer is alive, whose ProtoList then
\* still points at the released list.  The caller releases no prototype
\* twice.
CallerFreeProtoList ==
  /\ pc \in {"idle", "freed"}
  /\ Released = {}
  /\ pc = "idle" => ProtoList # NIL
  /\ pc' = IF pc = "freed" THEN "done" ELSE pc
  /\ Released' = 1..Len(ProtoList)
  /\ WroteFreed' = \E k \in 1..Len(ProtoList) :
                      ProtoList[k].Cluster # NULL /\ ProtoList[k].Cluster \in Freed
  /\ clusters' = FreeProtoList(clusters, ProtoList)
  /\ UNCHANGED <<NumberOfSamples, NumChar, Root, KDTree, ProtoList, treeVars,
                 ClusterStack, Config, Exception, staticVars, Freed, LastMade,
                 Returned, nMakeSample, nClusterSamples>>

\* the caller releases one prototype of the list with FreePrototype, after
\* FreeClusterer or while the clusterer is alive; ProtoList still points at
\* the prototype.  The caller goes through the list from its first element.
CallerFreePrototype ==
  /\ pc \in {"idle", "freed"}
  /\ \E k \in {j \in 1..Len(ProtoList) : Released = 1..(j - 1)} :
       /\ Released' = Released \cup {k}
       /\ WroteFreed' = (WroteFreed \/ (/\ ProtoList[k].Cluster # NULL
                                        /\ ProtoList[k].Cluster \in Freed))
       /\ clusters' = FreePrototype(clusters, ProtoList[k])
       /\ pc' = IF pc = "freed" /\ Released \cup {k} = 1..Len(ProtoList)
                THEN "done" ELSE pc
  /\ UNCHANGED <<NumberOfSamples, NumChar, Root, KDTree, ProtoList, treeVars,
                 ClusterStack, Config, Exception, staticVars, Freed, LastMade,
                 Returned, nMakeSample, nClusterSamples>>

Next ==
  \/ \E s \in SampleInputs : nMakeSample < MaxSamples /\ MakeSample(s.Feature, s.CharID)
  \/ \E Cfg \in { MakeConfig("mixed", <<3, 2>>, <<1, 4>>, <<1, 1>>, <<1, 20>>),
                   MakeConfig("spherical", <<0, 1>>, <<1, 1>>, <<1, 2>>, <<1, 2>>) } :
       ClusterSamples(Cfg)
  \/ SkipClustered
  \/ RenewNeighbor
  \/ FormCluster
  \/ FinishClusterTree
  \/ AnalyzeCluster
  \/ ReturnProtoList
  \/ FreeClusterer
  \/ CallerFreeProtoList
  \/ CallerFreePrototype

Spec == Init /\ [][Next]_vars

\* ClusterSamples does not return before the loop of CreateClusterTree has
\* run to its end: the loop is a while loop of a sequential program, and a
\* turn of it that can be taken is taken.  The last conjunct is the weak
\* fairness of RenewNeighbor \/ FormCluster with ENABLED written out as the
\* guard (the potential cluster on top of the heap has a main cluster that
\* is not clustered): the search for a neighbor always delivers a result
SpecLoop ==
  /\ Init /\ [][Next]_vars
  /\ WF_vars(SkipClustered) /\ WF_vars(FinishClusterTree)
  /\ \/ []<>(~(/\ pc = "CreateClusterTree"
               /\ \E e \in HeapTop(Heap) :
                    ~clusters[TempCluster[e.Data].Cluster].Clustered))
     \/ []<><<RenewNeighbor \/ FormCluster>>_vars

\* the runs with one ClusterSamples call, of style automatic
NextAutomatic ==
  \/ \E s \in SampleInputs : nMakeSample < MaxSamples /\ MakeSample(s.Feature, s.CharID)
  \/ /\ nClusterSamples = 0
     /\ ClusterSamples(MakeConfig("automatic", <<1, 1>>, <<1, 1>>, <<1, 1>>, <<1, 10>>))
  \/ SkipClustered
  \/ RenewNeighbor
  \/ FormCluster
  \/ FinishClusterTree
  \/ AnalyzeCluster
  \/ ReturnProtoList
  \/ FreeClusterer
  \/ CallerFreeProtoList
  \/ CallerFreePrototype

SpecAutomatic == Init /\ [][NextAutomatic]_vars

\* the runs of style mixed in which clusters of several samples are tested:
\* the samples are of one character, and with NumChar = 2 a cluster of
\* three samples reaches MakeMixedProto and a smaller one does not; the
\* configurations differ in Confidence
NextMixed ==
  \/ \E s \in {i \in SampleInputs : i.CharID = 1} :
       nMakeSample < MaxSamples /\ MakeSample(s.Feature, s.CharID)
  \/ \E Confidence \in {<<1, 10>>, <<1, 20>>} :
       ClusterSamples(MakeConfig("mixed", <<3, 2>>, <<1, 1>>, <<1, 1>>, Confidence))
  \/ SkipClustered
  \/ RenewNeighbor
  \/ FormCluster
  \/ FinishClusterTree
  \/ AnalyzeCluster
  \/ ReturnProtoList
  \/ FreeClusterer
  \/ CallerFreeProtoList
  \/ CallerFreePrototype

SpecMixed == Init /\ [][NextMixed]_vars

\* the runs with up to MaxMergeSamples samples, no two of them alike, and
\* one ClusterSamples call, under which no cluster reaches MinSamples and no
\* cluster with two samples of a character passes MaxIllegal
NextMerge ==
  \/ \E s \in MergeInputs :
       /\ nMakeSample < MaxMergeSamples
       /\ \A c \in 1..Len(clusters) : clusters[c].Mean # s.Feature
       /\ MakeSample(s.Feature, s.CharID)
  \/ /\ nClusterSamples = 0
     /\ ClusterSamples(MakeConfig("spherical", <<8, 1>>, <<0, 1>>, <<1, 1>>, <<1, 2>>))
  \/ SkipClustered
  \/ RenewNeighbor
  \/ FormCluster
  \/ FinishClusterTree
  \/ AnalyzeCluster
  \/ ReturnProtoList
  \/ FreeClusterer
  \/ CallerFreeProtoList
  \/ CallerFreePrototype

SpecMerge == Init /\ [][NextMerge]_vars

\* ==================================================================== claims
\* the clusters of the subtree of Root
TreeNodes == FreeCluster(clusters, Root)
Clusters == 1..Len(clusters)
IsLeaf(c) == clusters[c].Left = NULL
\* a ClusterSamples call has returned and the clusterer is at rest
Clustered == pc = "idle" /\ Len(Returned) >= 1

\* C1: every MakeSample call made after ClusterSamples has been called on the
\* clusterer (whatever number of samples it held, zero included) fails with
\* ALREADYCLUSTERED and adds no sample.
C1_MakeSampleAfterClusterSamples ==
  [][(nClusterSamples >= 1 /\ nMakeSample' # nMakeSample) =>
       /\ Exception' = "ALREADYCLUSTERED"
       /\ NumberOfSamples' = NumberOfSamples
       /\ clusters' = clusters]_vars

\* C2: the cluster tree is built by the first ClusterSamples call only: every
\* step of a later call leaves Root and every cluster's children,
\* SampleCount, Mean and Clustered flag unchanged.
TreeView ==
  <<Root, [c \in Clusters |->
             <<clusters[c].Left, clusters[c].Right, clusters[c].SampleCount,
               clusters[c].Mean, clusters[c].Clustered>>]>>
InClusterSamples ==
  nClusterSamples' # nClusterSamples \/ pc \in {"CreateClusterTree", "ComputePrototypes"}
C2_TreeBuiltOnce ==
  [][(Len(Returned) >= 1 /\ InClusterSamples) => TreeView' = TreeView]_vars
\* a second call has returned on a tree with an internal root
C2_Witness == pc = "idle" /\ Len(Returned) = 2 /\ Root # NULL /\ ~IsLeaf(Root)

\* C3: after ClusterSamples on a clusterer holding n >= 1 samples, the
\* clusters reachable from Root form a strict binary tree: an internal
\* cluster has two different non-null children, every cluster but Root is
\* the child of exactly one cluster, and the leaves are exactly the n
\* samples made by MakeSample.
StrictBinaryTree ==
  /\ \A c \in TreeNodes :
       /\ clusters[c].Left = NULL <=> clusters[c].Right = NULL
       /\ ~IsLeaf(c) => clusters[c].Left # clusters[c].Right
       /\ Cardinality({q \in TreeNodes : clusters[q].Left = c \/ clusters[q].Right = c})
            = (IF c = Root THEN 0 ELSE 1)
  /\ {c \in TreeNodes : IsLeaf(c)} = {c \in Clusters : clusters[c].CharID >= 0}
  /\ Cardinality({c \in TreeNodes : IsLeaf(c)}) = NumberOfSamples
C3_StrictBinaryTree ==
  /\ (Clustered /\ NumberOfSamples >= 1) => Root # NULL
  /\ Root # NULL => StrictBinaryTree
C3_Witness == Clustered /\ NumberOfSamples = 3 /\ Cardinality(TreeNodes) = 5

\* C4: in every state during and after the construction of the tree, every
\* internal cluster has SampleCount = Left.SampleCount + Right.SampleCount,
\* every leaf has SampleCount 1, and Root.SampleCount is NumberOfSamples
\* once the construction is complete.
C4_SampleCounts ==
  /\ \A c \in Clusters :
       clusters[c].SampleCount =
         IF IsLeaf(c) THEN 1
         ELSE clusters[clusters[c].Left].SampleCount
                + clusters[clusters[c].Right].SampleCount
  /\ Root # NULL => clusters[Root].SampleCount = NumberOfSamples
C4_Witness ==
  pc = "CreateClusterTree" /\ \E c \in Clusters : clusters[c].SampleCount = 3

\* C5: every sample lies in [Min, Max) of every circular dimension i; then
\* every cluster made by any sequence of merges has Min <= Mean[i] < Max.
C5_CircularMeanInRange ==
  \A c \in Clusters, i \in Dims :
    ParamDesc[i].Circular =>
      /\ RLe(ParamDesc[i].Min, clusters[c].Mean[i])
      /\ RLt(clusters[c].Mean[i], ParamDesc[i].Max)

\* C6: after every ClusterSamples call, for any config and any outcomes of
\* the tests, the call returns a list whose clusters cover the tree exactly:
\* every leaf lies in the subtree of exactly one prototype's cluster and no
\* prototype's cluster lies in the subtree of another's.
CoversTree(List) ==
  /\ \A leaf \in {c \in TreeNodes : IsLeaf(c)} :
       Cardinality({k \in 1..Len(List) :
                      leaf \in FreeCluster(clusters, List[k].Cluster)}) = 1
  /\ \A j, k \in 1..Len(List) :
       j # k => List[j].Cluster \notin FreeCluster(clusters, List[k].Cluster)
C6_PrototypesCoverTree ==
  /\ Clustered => CoversTree(ProtoList)
  /\ ~(pc = "crashed" /\ Root # NULL)

\* C7: two consecutive ClusterSamples calls with the same config return
\* lists of the same length whose prototypes pairwise have the same style,
\* mean and variance and refer to the same clusters.
SamePrototype(p, q) ==
  /\ p.Style = q.Style
  /\ p.Mean = q.Mean
  /\ p.Variance = q.Variance
  /\ p.Cluster = q.Cluster
SameList(L1, L2) ==
  /\ Len(L1) = Len(L2)
  /\ \A k \in 1..Len(L1) : k <= Len(L2) => SamePrototype(L1[k], L2[k])
C7_SameConfigSameList ==
  \A k \in 1..(Len(Returned) - 1) :
    Returned[k].Config = Returned[k + 1].Config =>
      SameList(Returned[k].ProtoList, Returned[k + 1].ProtoList)

\* C8: a prototype MakePrototype returns is insignificant exactly when the
\* SampleCount of its cluster is below max(1, floor(MinSamples * NumChar));
\* a cluster below that threshold that passed the multi-character filter
\* yields a prototype before the independence test and any distribution
\* test; and a root below the threshold THAT PASSES THE MULTI-CHARACTER
\* FILTER gives a list of exactly one insignificant prototype.
Threshold(Cfg, nchar) ==
  IF RFloor(RMul(Cfg.MinSamples, FromInt(nchar))) < 1 THEN 1
  ELSE RFloor(RMul(Cfg.MinSamples, FromInt(nchar)))
BelowThreshold(Cluster, Cfg, nchar) ==
  clusters[Cluster].SampleCount < Threshold(Cfg, nchar)
InsignificantIffBelow ==
  LastMade.Made =>
    (~LastMade.Significant <=>
       BelowThreshold(LastMade.Cluster, LastMade.Config, LastMade.NumChar))
BelowYieldsUntested ==
  (/\ LastMade.Stage \notin {"none", "MultipleCharSamples"}
   /\ BelowThreshold(LastMade.Cluster, LastMade.Config, LastMade.NumChar))
    => LastMade.Made /\ LastMade.Stage = "MakeDegenerateProto"
OneInsignificant ==
  /\ Len(ProtoList) = 1
  /\ ~ProtoList[1].Significant
  /\ ProtoList[1].Cluster = Root
RootBelow == Clustered /\ Root # NULL /\ BelowThreshold(Root, Config, NumChar)
C8_Degenerate ==
  /\ InsignificantIffBelow
  /\ BelowYieldsUntested
  /\ (RootBelow /\ ~MultipleCharSamples(clusters, Root, Config.MaxIllegal))
       => OneInsignificant
\* C8 as stated: any root below the threshold gives one insignificant prototype
C8_AsStated ==
  /\ InsignificantIffBelow
  /\ BelowYieldsUntested
  /\ RootBelow => OneInsignificant
\* a root of two samples below the threshold gave one insignificant prototype
C8_Witness == RootBelow /\ ~IsLeaf(Root) /\ OneInsignificant

\* C9: after any sequence of ClusterSamples calls (the caller has released
\* no prototype of the current list) a cluster's Prototype flag is TRUE if
\* and only if some prototype of the current list refers to it: the flags
\* of the previous list and of the Mixed prototypes that were built and
\* freed again are cleared.
C9_PrototypeFlag ==
  pc = "idle" /\ Released = {} =>
    \A c \in Clusters :
      clusters[c].Prototype <=> \E k \in 1..Len(ProtoList) : ProtoList[k].Cluster = c
\* the second call has returned: a cluster of the first list is no longer
\* referred to, and during the second call the Mixed prototype of a cluster
\* of several samples was built and freed again
C9_Witness ==
  /\ pc = "idle" /\ Len(Returned) = 2 /\ Released = {}
  /\ \E j \in 1..Len(Returned[1].ProtoList) :
       \A k \in 1..Len(ProtoList) : ProtoList[k].Cluster # Returned[1].ProtoList[j].Cluster
  /\ \E c \in LastMade.Dropped :
       /\ ~IsLeaf(c)
       /\ \E j \in 1..Len(Returned[1].ProtoList) : Returned[1].ProtoList[j].Cluster = c

\* C10: after FreeClusterer every prototype of the last list has a null
\* Cluster and its Mean and variance as returned, a FreeProtoList run
\* afterwards writes to no freed cluster, and FreeProtoList frees no cluster:
\* clusters are freed by FreeClusterer only, also by one that stops in its
\* loop over a list the caller had released before.
LastList == IF Len(Returned) = 0 THEN NIL ELSE Returned[Len(Returned)].ProtoList
C10_PrototypesOutliveClusterer ==
  /\ pc \in {"freed", "done"} =>
       /\ Len(ProtoList) = Len(LastList)
       /\ \A k \in 1..Len(ProtoList) :
            /\ ProtoList[k].Cluster = NULL
            /\ k <= Len(LastList) => /\ ProtoList[k].Mean = LastList[k].Mean
                                     /\ ProtoList[k].Variance = LastList[k].Variance
       /\ Freed = FreeCluster(clusters, Root)
  /\ pc \notin {"freed", "done"} =>
       \/ Freed = {}
       \/ pc = "crashed" /\ Released # {} /\ Freed = FreeCluster(clusters, Root)
  /\ ~WroteFreed
C10_Witness == pc = "done" /\ Len(ProtoList) >= 2 /\ Cardinality(Freed) >= 3

\* the leaves under Cluster from left to right, by the structure of the tree
RECURSIVE LeavesLR(_)
LeavesLR(Cluster) ==
  IF Cluster = NULL THEN << >>
  ELSE IF IsLeaf(Cluster) THEN <<Cluster>>
  ELSE LeavesLR(clusters[Cluster].Left) \o LeavesLR(clusters[Cluster].Right)
RECURSIVE LeavesOfAll(_)
LeavesOfAll(sq) ==
  IF sq = << >> THEN << >> ELSE LeavesLR(Head(sq)) \o LeavesOfAll(Tail(sq))
ClustersOf(List) == [k \in 1..Len(List) |-> List[k].Cluster]
Reverse(sq) == [k \in 1..Len(sq) |-> sq[Len(sq) + 1 - k]]
PositionIn(sq, x) == CHOOSE k \in 1..Len(sq) : sq[k] = x
\* the leaves of sq stand as they stand from left to right in the tree
LeftToRight(sq) ==
  \A i, j \in 1..Len(sq) :
    i < j => PositionIn(LeavesLR(Root), sq[i]) < PositionIn(LeavesLR(Root), sq[j])
InComputePrototypes == pc \in {"ComputePrototypes", "idle"} /\ Root # NULL

\* C11: ComputePrototypes examines the clusters in left-first depth-first
\* order: whatever is emitted lies left of whatever is still on the stack,
\* and the stack holds its clusters from left to right.  The prototypes
\* stand in the list IN THE REVERSE of the order in which they were emitted:
\* the first prototype of the list is the one emitted last, whose cluster
\* is the rightmost.
C11_LeftFirstOrder ==
  InComputePrototypes =>
    LeftToRight(LeavesOfAll(Reverse(ClustersOf(ProtoList)) \o ClusterStack))
\* C11 as stated: the list is in the order of emission, leftmost cluster first
C11_AsStated ==
  InComputePrototypes => LeftToRight(LeavesOfAll(ClustersOf(ProtoList) \o ClusterStack))
\* a root of three samples was rejected and three prototypes were emitted
C11_Witness == Clustered /\ Len(ProtoList) = 3 /\ ProtoList[1].Cluster # NULL

\* C12: with ProtoStyle = automatic, a cluster that reached the distribution
\* tests is tried as spherical, then elliptical, then mixed: every attempt
\* but the last failed, an attempt is the last because it succeeded or
\* because it is the mixed one, and MakePrototype returns what the last
\* attempt returned, in its style.
StyleOrder == <<"spherical", "elliptical", "mixed">>
TestedAutomatic ==
  LastMade.Stage = "DistributionOK" /\ LastMade.Config.ProtoStyle = "automatic"
C12_AutomaticOrder ==
  TestedAutomatic =>
    /\ Len(LastMade.Tried) \in 1..3
    /\ \A k \in 1..Len(LastMade.Tried) :
         /\ LastMade.Tried[k].Style = StyleOrder[k]
         /\ k < Len(LastMade.Tried) => ~LastMade.Tried[k].Made
    /\ Len(LastMade.Tried) < 3 => LastMade.Tried[Len(LastMade.Tried)].Made
    /\ LastMade.Made = LastMade.Tried[Len(LastMade.Tried)].Made
    /\ LastMade.Made => LastMade.Style = StyleOrder[Len(LastMade.Tried)]
\* the spherical test failed and the elliptical prototype was returned
C12_Witness ==
  TestedAutomatic /\ Len(LastMade.Tried) = 2 /\ LastMade.Style = "elliptical"
\* all three were tried and the mixed prototype was returned
C12_WitnessMixed ==
  TestedAutomatic /\ Len(LastMade.Tried) = 3 /\ LastMade.Style = "mixed"

\* C13: for every cluster C, after the search state is initialised with C,
\* successive NextSample calls return the leaves under C, each once, from
\* left to right, never an internal cluster, and NULL on every call after
\* the last leaf.
RECURSIVE SearchAfter(_, _)
SearchAfter(Cluster, k) ==
  IF k = 0 THEN InitSampleSearch(Cluster)
  ELSE NextSample(clusters, SearchAfter(Cluster, k - 1)).SearchState
ReturnsInTurn(Cluster, Leaves) ==
  \A k \in 1..(Len(Leaves) + 2) :
    NextSample(clusters, SearchAfter(Cluster, k - 1)).Sample =
      IF k <= Len(Leaves) THEN Leaves[k] ELSE NULL
C13_NextSample == \A c \in Clusters : ReturnsInTurn(c, LeavesLR(c))
\* a cluster of three samples with an internal left child exists
C13_Witness ==
  \E c \in Clusters : Len(LeavesLR(c)) = 3 /\ ~IsLeaf(clusters[c].Left)

\* C14: NumChar is one plus the largest char id of the samples made so far
\* (0 when there is none), NumberOfSamples is the number of samples made, and
\* neither value changes once ClusterSamples has been called.
SampleIDs == {clusters[c].CharID : c \in {d \in Clusters : IsLeaf(d)}}
OnePlusMax(S) == IF S = {} THEN 0 ELSE 1 + CHOOSE m \in S : \A x \in S : x <= m
CountsAgree ==
  /\ NumChar = OnePlusMax(SampleIDs)
  /\ NumberOfSamples = Cardinality({d \in Clusters : IsLeaf(d)})
C14_SampleCounts ==
  [][/\ CountsAgree'
     /\ nClusterSamples >= 1 =>
          NumChar' = NumChar /\ NumberOfSamples' = NumberOfSamples]_vars

\* C15: whatever the pool holds, GetBuckets(d, n, c), any filling of the
\* histogram and FreeBuckets leave the pool such that the next
\* GetBuckets(d, n, c) returns a histogram whose observed counts are all
\* zero and whose expected counts, number of buckets and chi-squared
\* threshold are those of the first.
RoundTripCounts == {1, 3, 100}
RoundTripConfidences == {<<1, 20>>, <<1, 2>>}
\* the histogram with something counted in every bucket
Filled(Buckets) ==
  [Buckets EXCEPT !.Count = [k \in 1..Buckets.NumberOfBuckets |-> 1]]
GetAgain(g, d, n, c) == GetBuckets(FreeBuckets(g.ctx, Filled(g.Buckets)), d, n, c)
SameEmptyHistogram(B1, B2) ==
  /\ B2.Count = ZeroCount(B2.NumberOfBuckets)
  /\ B2.ExpectedCount = B1.ExpectedCount
  /\ B2.NumberOfBuckets = B1.NumberOfBuckets
  /\ B2.ChiSquared = B1.ChiSquared
RoundTrip(g, d, n, c) == SameEmptyHistogram(g.Buckets, GetAgain(g, d, n, c).Buckets)
\* the pool with one more histogram, last used for n0 samples, at its front
FreedInto(g) == FreeBuckets(g.ctx, Filled(g.Buckets))
C15_GetFreeGet ==
  \A d \in Distributions, n \in RoundTripCounts, c \in RoundTripConfidences :
    /\ RoundTrip(GetBuckets(Ctx, d, n, c), d, n, c)
    /\ \A n0 \in {2, 100} :
         RoundTrip(GetBuckets(FreedInto(MakeBuckets(Ctx, d, n0, <<1, 20>>)), d, n, c),
                   d, n, c)
\* the pool holds a histogram that has been rescaled
C15_Witness ==
  \E d \in Distributions :
    /\ OldBuckets[d] # << >>
    /\ Len(OldBuckets[d][1].ExpectedCount) >= 2

\* C16: a cluster whose Clustered flag is TRUE keeps it, is not in the
\* kd-tree, and is not made the left or right child of a new cluster;
\* every cluster in the kd-tree has Clustered = FALSE.
NewClusters == (Len(clusters) + 1)..Len(clusters')
C16_ClusteredIsFinal ==
  [][/\ \A c \in Clusters : clusters[c].Clustered => clusters'[c].Clustered
     /\ \A c \in 1..Len(clusters') : clusters'[c].Clustered => c \notin KDTree'
     /\ \A c \in KDTree' \ KDNULL : ~clusters'[c].Clustered
     /\ \A c \in NewClusters :
          clusters'[c].Left # NULL =>
            /\ ~clusters[clusters'[c].Left].Clustered
            /\ ~clusters[clusters'[c].Right].Clustered]_vars
\* the construction has marked clusters and the kd-tree still holds two
C16_Witness ==
  /\ pc = "CreateClusterTree"
  /\ \E c \in Clusters : clusters[c].Clustered
  /\ Cardinality(KDTree) >= 2

\* C17: in the loop of CreateClusterTree a popped pair whose main cluster is
\* clustered is discarded, whether or not its neighbor is clustered too: it
\* is not pushed back, no pair gets another neighbor, no cluster is made.
\* A pair gets a new neighbor only if its main cluster is unclustered.
\* e is the entry the step popped: the rest of the heap is as it was
Popped(e) == {f \in Heap' : f.Data # e.Data} = Heap \ {e}
Discarded(e) ==
  /\ Heap' = Heap \ {e}
  /\ TempCluster' = TempCluster
  /\ clusters' = clusters
  /\ KDTree' = KDTree
C17_StalePairFirst ==
  [][(pc = "CreateClusterTree" /\ Heap # {}) =>
       \E e \in HeapTop(Heap) :
         /\ Popped(e)
         /\ clusters[TempCluster[e.Data].Cluster].Clustered => Discarded(e)
         /\ TempCluster'[e.Data].Neighbor # TempCluster[e.Data].Neighbor =>
              ~clusters[TempCluster[e.Data].Cluster].Clustered]_vars
\* the pair on top of the heap has both its clusters clustered
C17_Witness ==
  /\ pc = "CreateClusterTree"
  /\ \E e \in HeapTop(Heap) :
       /\ clusters[TempCluster[e.Data].Cluster].Clustered
       /\ clusters[TempCluster[e.Data].Neighbor].Clustered

\* C18: for a clusterer with n >= 1 samples, when the heap has become empty
\* the kd-tree holds exactly one cluster, that cluster is unclustered and
\* it is the one stored in Root; afterwards KDTree is null.
C18_RootIsSoleCluster ==
  [][(pc = "CreateClusterTree" /\ Heap = {} /\ NumberOfSamples >= 1) =>
       \E c \in Clusters :
         /\ KDTree = {c}
         /\ ~clusters[c].Clustered
         /\ Root' = c
         /\ KDTree' = KDNULL]_vars
\* the heap is empty after three samples, two of them at the same point
C18_Witness ==
  /\ pc = "CreateClusterTree" /\ Heap = {} /\ NumberOfSamples = 3
  /\ \E a, b \in Clusters :
       a # b /\ IsLeaf(a) /\ IsLeaf(b) /\ clusters[a].Mean = clusters[b].Mean

\* the values of MaxIllegal the walk is examined with
IllegalFractions == { <<0, 1>>, <<1, 4>>, <<1, 2>>, <<3, 4>>, <<1, 1>> }
\* the character ids of the leaf samples of a cluster, left to right
LeafIDs(c) == [k \in 1..Len(LeavesLR(c)) |-> clusters[LeavesLR(c)[k]].CharID]
Unseen(ids) == [i \in {ids[k] : k \in 1..Len(ids)} |-> "unseen"]
\* the walk over the ids from position k with the tri-state flags, the count
\* of illegal characters and the running denominator; EveryRepeat says
\* whether a third or later sample of a character also lowers the
\* denominator and is followed by the comparison
RECURSIVE Walk(_, _, _, _, _, _, _)
Walk(ids, k, Flags, illegal_count, char_count, MaxIllegal, EveryRepeat) ==
  IF k > Len(ids) THEN FALSE
  ELSE IF Flags[ids[k]] = "unseen"
  THEN Walk(ids, k + 1, [Flags EXCEPT ![ids[k]] = "seen"], illegal_count,
            char_count, MaxIllegal, EveryRepeat)
  ELSE IF Flags[ids[k]] = "seen"
  THEN (\/ RLt(MaxIllegal, Rat(illegal_count + 1, char_count - 1))
        \/ Walk(ids, k + 1, [Flags EXCEPT ![ids[k]] = "illegal"],
                illegal_count + 1, char_count - 1, MaxIllegal, EveryRepeat))
  ELSE IF EveryRepeat
  THEN (\/ RLt(MaxIllegal, Rat(illegal_count, char_count - 1))
        \/ Walk(ids, k + 1, Flags, illegal_count, char_count - 1, MaxIllegal,
                EveryRepeat))
  ELSE Walk(ids, k + 1, Flags, illegal_count, char_count, MaxIllegal,
            EveryRepeat)
WalkOf(c, MaxIllegal, EveryRepeat) ==
  Walk(LeafIDs(c), 1, Unseen(LeafIDs(c)), 0, clusters[c].SampleCount,
       MaxIllegal, EveryRepeat)
\* MultipleCharSamples agrees with the walk, on every cluster and for the
\* cluster MakePrototype was last called with
AgreesWithWalk(EveryRepeat) ==
  /\ \A c \in Clusters, M \in IllegalFractions :
       MultipleCharSamples(clusters, c, M) <=> WalkOf(c, M, EveryRepeat)
  /\ LastMade.Cluster # NULL =>
       (LastMade.Stage = "MultipleCharSamples" <=>
          WalkOf(LastMade.Cluster, LastMade.Config.MaxIllegal, EveryRepeat))

\* C19: MultipleCharSamples walks the leaf samples of the cluster; the second
\* sample of a character raises illegal_count; every sample of a character
\* met before, the third and later ones included, lowers char_count (which
\* starts at SampleCount) and is followed by the comparison; TRUE is returned
\* exactly when illegal_count / char_count exceeds MaxIllegal at such a
\* sample, FALSE if the walk finishes.
C19_WalkEveryRepeat == AgreesWithWalk(TRUE)
\* C19 as stated: char_count is lowered, and the comparison made, only when a
\* character goes from seen to illegal
C19_AsStated == AgreesWithWalk(FALSE)
\* MakePrototype was called with a cluster of three samples of one character
C19_Witness ==
  /\ LastMade.Cluster # NULL
  /\ clusters[LastMade.Cluster].SampleCount = 3
  /\ \A k \in 1..3 : LeafIDs(LastMade.Cluster)[k] = LeafIDs(LastMade.Cluster)[1]

\* the essential dimensions, and the order of the distributions
Essential == {i \in Dims : ~ParamDesc[i].NonEssential}
DistributionOrder == <<"normal", "D_random", "uniform">>
\* the last MakePrototype call ended with a MakeMixedProto call; MixedCall
\* is what that call did
MixedTried ==
  /\ LastMade.Stage = "DistributionOK"
  /\ Len(LastMade.Tried) >= 1
  /\ LastMade.Tried[Len(LastMade.Tried)].Style = "mixed"
MixedCall == LastMade.Tried[Len(LastMade.Tried)]
\* the tests of dimension i among the tests T, in the order they were made
TestsOf(T, i) == SelectSeq(T, LAMBDA t : t.Dim = i)
\* the tests of one dimension: normal, then D_random, then uniform, each
\* made only if every earlier one failed
InOrderUntilPass(D) ==
  /\ Len(D) <= 3
  /\ \A k \in 1..Len(D) :
       /\ D[k].Distribution = DistributionOrder[k]
       /\ k < Len(D) => ~D[k].OK
FailsAll(D) == Len(D) = 3 /\ \A k \in 1..3 : ~D[k].OK
Passes(D) == Len(D) >= 1 /\ D[Len(D)].OK
\* the tests T go through the essential dimensions in index order, going
\* on to the next dimension only after a test passed
DimsInOrder(T) ==
  /\ \A k \in 1..Len(T) : T[k].Dim \in Essential
  /\ \A k \in 1..(Len(T) - 1) :
       \/ T[k + 1].Dim = T[k].Dim
       \/ T[k + 1].Dim > T[k].Dim /\ T[k].OK
  /\ \A i \in Essential :
       TestsOf(T, i) = << >> <=>
         \E j \in Essential : j < i /\ ~Passes(TestsOf(T, j))

\* C20: MakeMixedProto handles the essential dimensions in index order and
\* tests each for normal, then random, then uniform, stopping at the first
\* test that passes; in a returned prototype every essential dimension has
\* the first distribution whose test passed and every nonessential one is
\* normal; no prototype is returned exactly when some essential dimension
\* fails all three tests.
C20_MixedOrder ==
  MixedTried =>
    /\ DimsInOrder(MixedCall.Tests)
    /\ \A i \in Essential : InOrderUntilPass(TestsOf(MixedCall.Tests, i))
    /\ ~MixedCall.Made <=>
         \E i \in Essential : FailsAll(TestsOf(MixedCall.Tests, i))
    /\ MixedCall.Made =>
         \A i \in Dims :
           IF i \in Essential
           THEN /\ Passes(TestsOf(MixedCall.Tests, i))
                /\ MixedCall.Distrib[i] =
                     DistributionOrder[Len(TestsOf(MixedCall.Tests, i))]
           ELSE MixedCall.Distrib[i] = "normal"
\* a mixed prototype was returned with one essential dimension random and
\* the other uniform
C20_Witness ==
  /\ MixedTried /\ MixedCall.Made
  /\ \E i, j \in Essential :
       MixedCall.Distrib[i] = "D_random" /\ MixedCall.Distrib[j] = "uniform"
\* no prototype was returned: the second essential dimension failed all tests
C20_WitnessNone ==
  /\ MixedTried /\ ~MixedCall.Made
  /\ \E i, j \in Essential : i < j /\ FailsAll(TestsOf(MixedCall.Tests, j))

\* the histograms lying in the pools, as (distribution of the pool, position)
Pooled == {p \in Distributions \X (1..Allocated) : p[2] <= Len(OldBuckets[p[1]])}
PooledAs(id) == {p \in Pooled : OldBuckets[p[1]][p[2]].Id = id}

\* C21: when MakePrototype has returned, whatever the style, the outcome and
\* the exit path, every histogram GetBuckets handed out is back in the pool
\* of its distribution: each structure allocated so far lies in exactly one
\* pool, exactly once.
C21_BucketsReturned ==
  /\ \A id \in 1..Allocated : Cardinality(PooledAs(id)) = 1
  /\ \A d \in Distributions :
       /\ Len(OldBuckets[d]) <= Allocated
       /\ \A k \in 1..Len(OldBuckets[d]) :
            OldBuckets[d][k].Id \in 1..Allocated /\ OldBuckets[d][k].Distribution = d
\* a mixed fit has failed after taking histograms for the random and the
\* uniform distribution
C21_Witness ==
  /\ MixedTried /\ ~MixedCall.Made
  /\ OldBuckets["D_random"] # << >> /\ OldBuckets["uniform"] # << >>
  /\ Allocated >= 3

\* the bucket counts a histogram can have, and n rounded up to an even number
BucketCounts == MINBUCKETS..MAXBUCKETS
NextEven(n) == 2 * ((n + 1) \div 2)
Even(n) == n % 2 = 0
\* the degrees of freedom the claim gives for distribution d and B buckets
ClaimedDegrees(d, B) ==
  IF d = "D_random" THEN NextEven(B - 1) ELSE NextEven(B - 3)
\* the threshold of a histogram was computed for the degrees of freedom of
\* its distribution and bucket count
ThresholdsAgree ==
  \A d \in Distributions : \A k \in 1..Len(OldBuckets[d]) :
    /\ OldBuckets[d][k].NumberOfBuckets \in BucketCounts
    /\ OldBuckets[d][k].ChiSquared.dof =
         ClaimedDegrees(d, OldBuckets[d][k].NumberOfBuckets)

\* C22: DegreesOfFreedom(d, B) is B - 3 for normal and uniform and B - 1 for
\* random, rounded up to the next even number; for every bucket count B in
\* 5..39 it is even and lies in 2..38, inside the cache of
\* MAXDEGREESOFFREEDOM + 1 lists, and only such lists of the cache are used.
C22_DegreesOfFreedom ==
  /\ \A d \in Distributions, B \in BucketCounts :
       /\ DegreesOfFreedom(d, B) = ClaimedDegrees(d, B)
       /\ Even(DegreesOfFreedom(d, B))
       /\ DegreesOfFreedom(d, B) \in 2..38
       /\ DegreesOfFreedom(d, B) \in DOMAIN ChiWith
  /\ ThresholdsAgree
  /\ \A dof \in DOMAIN ChiWith :
       ChiWith[dof] # << >> => Even(dof) /\ dof \in 2..38
  /\ DOMAIN ChiWith = 0..MAXDEGREESOFFREEDOM
  /\ MAXDEGREESOFFREEDOM + 1 = 40
\* thresholds have been computed for a normal and for a random histogram
C22_Witness ==
  /\ ChiWith[2] # << >> /\ ChiWith[4] # << >>
  /\ OldBuckets["normal"] # << >> /\ OldBuckets["D_random"] # << >>

\* the alphas ComputeChiSquared is examined with; one of them exceeds 1
ChiAlphas == {<<-1, 1>>, <<0, 1>>, <<1, 20>>, <<1, 10>>, <<1, 2>>, <<1, 1>>, <<3, 2>>}
Clamped(Alpha) ==
  IF RLe(Alpha, Zero) THEN MINALPHA ELSE IF RLt(One, Alpha) THEN One ELSE Alpha
\* the list sq continues the list old: old is its tail
EndsWith(sq, old) ==
  /\ Len(sq) >= Len(old)
  /\ SubSeq(sq, Len(sq) - Len(old) + 1, Len(sq)) = old
\* the entries of the list of dof with this alpha
EntriesFor(ChiW, dof, Alpha) ==
  {k \in 1..Len(ChiW[dof]) : ChiW[dof][k].Alpha = Alpha}
\* what a call of ComputeChiSquared does to the cache ChiW: a pair met
\* before returns the stored value and leaves the cache alone, a new pair
\* adds one entry to the list of its dof
CallMemoized(ChiW, dofIn, AlphaIn) ==
  \E r \in {ComputeChiSquared(ChiW, dofIn, AlphaIn)} :
    IF EntriesFor(ChiW, NextEven(dofIn), Clamped(AlphaIn)) # {}
    THEN /\ r.ChiWith = ChiW
         /\ \A k \in EntriesFor(ChiW, NextEven(dofIn), Clamped(AlphaIn)) :
              r.ChiSquared = ChiW[NextEven(dofIn)][k].ChiSquared
    ELSE /\ \A dof \in DOMAIN ChiW :
              Len(r.ChiWith[dof]) =
                Len(ChiW[dof]) + (IF dof = NextEven(dofIn) THEN 1 ELSE 0)
         /\ ComputeChiSquared(r.ChiWith, dofIn, AlphaIn) = r
NoTwoWithSameAlpha(ChiW) ==
  \A dof \in DOMAIN ChiW :
    \A k, m \in 1..Len(ChiW[dof]) : ChiW[dof][k].Alpha = ChiW[dof][m].Alpha => k = m

\* C23: over the ComputeChiSquared calls of a run the solver runs at most
\* once for a pair (dof rounded up to even, clamped alpha): no list of the
\* cache holds two entries with the same alpha, no entry is removed or
\* changed, and a call for a pair met before returns the stored value.
C23_SolvedOnce ==
  [][/\ NoTwoWithSameAlpha(ChiWith')
     /\ \A dof \in DOMAIN ChiWith : EndsWith(ChiWith'[dof], ChiWith[dof])
     /\ \A dofIn \in 1..4, Alpha \in ChiAlphas :
          CallMemoized(ChiWith', dofIn, Alpha)]_vars
\* the normal and the uniform histogram share one entry of the list of two
\* degrees of freedom, which also holds an entry for another alpha
C23_Witness ==
  /\ Len(ChiWith[2]) = 2
  /\ OldBuckets["normal"] # << >> /\ OldBuckets["uniform"] # << >>
  /\ OldBuckets["normal"][1].ChiSquared = OldBuckets["uniform"][1].ChiSquared

\* the values of one dimension of the samples of a cluster, in the order
\* NextSample returns them: six samples below, at or above a mean of 1
PseudoMean == <<1, 1>>
PseudoValues == [1..(MINBUCKETS + 1) -> {<<0, 1>>, <<1, 1>>, <<2, 1>>}]
\* the samples the pseudo-analysis puts into bucket b (counted from 0)
PutInto(nb, Mean, x, b) == {k \in 1..Len(x) : PseudoBucket(nb, Mean, x, k) = b}
AtMean(Mean, x) == {k \in 1..Len(x) : x[k] = Mean}
AtMeanInto(nb, Mean, x, b) ==
  Cardinality(PutInto(nb, Mean, x, b) \cap AtMean(Mean, x))
\* what the claim says of the pseudo-analysis of the values x
PseudoAsClaimed(nb, Mean, x) ==
  /\ \A k \in 1..Len(x) :
       /\ RLt(Mean, x[k]) => k \in PutInto(nb, Mean, x, nb - 1)
       /\ RLt(x[k], Mean) => k \in PutInto(nb, Mean, x, 0)
  /\ \A b \in 0..(nb - 1) :
       PseudoCount(nb, Mean, x)[b + 1] = Cardinality(PutInto(nb, Mean, x, b))
  /\ \A a, b \in 0..(nb - 1) :
       AtMeanInto(nb, Mean, x, a) <= AtMeanInto(nb, Mean, x, b) + 1

\* C24: FillBuckets with StdDev = 0 puts every sample above Mean into the
\* last bucket, every sample below Mean into the first, and spreads the
\* samples equal to Mean round-robin: whatever the order of the samples, the
\* numbers of at-mean samples of any two buckets differ by at most one.
C24_RoundRobin ==
  /\ \A x \in PseudoValues : PseudoAsClaimed(MINBUCKETS, PseudoMean, x)
  /\ \A c \in Clusters, i \in Dims :
       PseudoAsClaimed(MINBUCKETS, clusters[c].Mean[i],
                       ValuesOf(clusters, SamplesOf(clusters, c), i))

\* the clusters the step has formed by a merge
Merged == {c \in NewClusters : clusters'[c].Left # NULL}
Between(a, b) == Distance(clusters[a].Mean, clusters[b].Mean)
\* no unclustered cluster of the kd-tree is strictly closer to main than nb
NearestTo(main, nb) ==
  \A u \in KDTree \ {main} :
    ~clusters[u].Clustered => ~RLt(Between(u, main), Between(nb, main))

\* C25: every merge of CreateClusterTree joins the popped main cluster with
\* a current nearest neighbor, although stale pairs keep the key they were
\* pushed with: when the merge is made no unclustered cluster of the
\* kd-tree is strictly closer to the main cluster than the pair's neighbor.
C25_MergesNearest ==
  [][pc = "CreateClusterTree" =>
       \A c \in Merged :
         /\ clusters'[c].Left \in KDTree /\ clusters'[c].Right \in KDTree
         /\ NearestTo(clusters'[c].Left, clusters'[c].Right)]_vars
\* a pair found before an earlier merge has been merged: of four samples
\* two were merged into c1, and then two others into c2, the neighbor of
\* that pair being strictly nearer to its main cluster than every other
\* sample, so that the pair is the one found for the main cluster when the
\* heap was seeded, and was never renewed
C25_Witness ==
  /\ pc = "CreateClusterTree" /\ NumberOfSamples = MaxMergeSamples
  /\ \E c1, c2 \in {c \in Clusters : ~IsLeaf(c)} :
       /\ c1 < c2
       /\ IsLeaf(clusters[c2].Left) /\ IsLeaf(clusters[c2].Right)
       /\ \A u \in {c \in Clusters : IsLeaf(c)} \ {clusters[c2].Left, clusters[c2].Right} :
            RLt(Between(clusters[c2].Left, clusters[c2].Right),
                Between(clusters[c2].Left, u))

\* the clusters formed by merges so far
Internal == {c \in Clusters : ~IsLeaf(c)}
HeapRanEmpty == pc = "CreateClusterTree" /\ Heap = {}

\* C26: for n >= 1 samples the loop of CreateClusterTree comes to an end,
\* no pair being pushed again forever, and when the heap runs empty exactly
\* n - 1 merges have been made, each creating one internal cluster.
C26_LoopEnds ==
  /\ (pc = "CreateClusterTree") ~> (Heap = {})
  /\ [](HeapRanEmpty /\ NumberOfSamples >= 1 =>
          Cardinality(Internal) = NumberOfSamples - 1)
  /\ [][pc = "CreateClusterTree" => Cardinality(Merged) <= 1]_vars
\* the heap has run empty after the two merges of three samples
C26_Witness ==
  HeapRanEmpty /\ NumberOfSamples = 3 /\ Cardinality(Internal) = 2

\* ---------------------------------------------------------------------------
\* C27: during CreateClusterTree the heap never holds more entries than
\* NumberOfSamples, the capacity it was made with, and at most NumberOfSamples
\* slots of TempCluster are used: the seeding pushes at most one entry for
\* each sample, each into a slot of its own, and a turn of the loop pops one
\* entry and pushes at most one, into the slot of the entry popped.
InLoop == pc = "CreateClusterTree"
HeapSlots(H) == {e.Data : e \in H}
OneEntryPerSlot(H, T) ==
  /\ HeapSlots(H) \subseteq 1..Len(T)
  /\ Cardinality(HeapSlots(H)) = Cardinality(H)
Seeded == ~InLoop /\ InLoop'
Turned == InLoop /\ InLoop'
C27_HeapWithinCapacity ==
  /\ [](InLoop => /\ Cardinality(Heap) <= NumberOfSamples
                  /\ Len(TempCluster) <= NumberOfSamples
                  /\ OneEntryPerSlot(Heap, TempCluster))
  /\ [][Seeded => /\ Len(TempCluster') <= Cardinality(KDTree)
                  /\ Cardinality(KDTree) = NumberOfSamples
                  /\ Cardinality(Heap') = Len(TempCluster')]_vars
  /\ [][Turned => /\ Len(TempCluster') = Len(TempCluster)
                  /\ \E e \in Heap :
                       \/ Heap' = Heap \ {e}
                       \/ \E k \in {f.Key : f \in Heap'} :
                            Heap' = (Heap \ {e}) \cup
                                      {[Key |-> k, Data |-> e.Data]}]_vars
\* the heap is full and a turn of the loop has popped and pushed
C27_Witness ==
  /\ InLoop
  /\ NumberOfSamples = MaxSamples
  /\ Cardinality(Heap) = NumberOfSamples
  /\ \E c \in Clusters : ~IsLeaf(c)

\* ---------------------------------------------------------------------------
\* C28: ComputePrototypes never pops a null cluster: no entry of its stack is
\* NULL, and a cluster for which MakePrototype has returned none is an internal
\* cluster with two children, so that for every config every leaf gets a
\* prototype.
C28_LeafAlwaysMade ==
  /\ \A k \in 1..Len(ClusterStack) : ClusterStack[k] # NULL
  /\ LastMade.Cluster # NULL /\ ~LastMade.Made =>
        /\ clusters[LastMade.Cluster].Left # NULL
        /\ clusters[LastMade.Cluster].Right # NULL

\* ---------------------------------------------------------------------------
\* C29: whatever the pools hold after the calls of GetBuckets and FreeBuckets
\* made so far, the histogram GetBuckets(d, n, c) hands out is the one
\* MakeBuckets(d, n, c) would make: the same distribution, sample count n,
\* confidence c, number of buckets and chi-squared threshold, nothing
\* counted, and in exact arithmetic the same expected counts, however often
\* the histogram has been rescaled.  (The lookup table of a histogram is
\* fixed by its distribution and its number of buckets.)
\* the sample count the expected counts are scaled to: in exact arithmetic
\* they are this count times the probabilities of the buckets
ExactExpected(Buckets) == Buckets.ExpectedCount[Len(Buckets.ExpectedCount)]
LikeFresh(B, F, d, n, c) ==
  /\ B.Distribution = d /\ F.Distribution = d
  /\ B.SampleCount = n /\ F.SampleCount = n
  /\ B.Confidence = c /\ F.Confidence = c
  /\ B.NumberOfBuckets = F.NumberOfBuckets
  /\ B.ChiSquared = F.ChiSquared
  /\ B.Count = ZeroCount(B.NumberOfBuckets) /\ F.Count = B.Count
  /\ ExactExpected(B) = ExactExpected(F)
GetLikeMake(ctx, d, n, c) ==
  LikeFresh(GetBuckets(ctx, d, n, c).Buckets, MakeBuckets(ctx, d, n, c).Buckets,
            d, n, c)
\* the histogram of the pool that GetBuckets(d, n, c) would take
Reused(d, n) ==
  {k \in 1..Len(OldBuckets[d]) :
     /\ OldBuckets[d][k].NumberOfBuckets = OptimumNumberOfBuckets(n)
     /\ \A m \in 1..(k - 1) :
          OldBuckets[d][m].NumberOfBuckets # OptimumNumberOfBuckets(n)}
C29_GetLikeMake ==
  \A d \in Distributions, n \in RoundTripCounts, c \in RoundTripConfidences :
    /\ GetLikeMake(Ctx, d, n, c)
    /\ GetLikeMake(FreedInto(GetBuckets(Ctx, d, 2, <<1, 10>>)), d, n, c)
\* GetBuckets would take a histogram that has something counted, has been
\* rescaled before, and was last used with another sample count and another
\* confidence
C29_Witness ==
  \E d \in Distributions, n \in RoundTripCounts, c \in RoundTripConfidences :
    \E k \in Reused(d, n) :
      /\ OldBuckets[d][k].Count # ZeroCount(OldBuckets[d][k].NumberOfBuckets)
      /\ Len(OldBuckets[d][k].ExpectedCount) >= 2
      /\ OldBuckets[d][k].SampleCount # n
      /\ OldBuckets[d][k].Confidence # c
      /\ GetBuckets(Ctx, d, n, c).Buckets.Id = OldBuckets[d][k].Id

\* ---------------------------------------------------------------------------
\* C30: in MultipleCharSamples, for a cluster whose SampleCount is the number
\* of its leaves, NumCharInCluster is at least 1 at every division and
\* NumIllegalInCluster is never above it, so the fraction is never above 1:
\* with MaxIllegal >= 1 no cluster is rejected, and a cluster whose samples all
\* have different character ids is rejected for no MaxIllegal >= 0.
IDsOfSamples(c) == CharIDsOf(clusters, SamplesOf(clusters, c))
\* the samples at which the division is made: those of a character met before
Repeats(ids) == {k \in 1..Len(ids) : \E m \in 1..(k - 1) : ids[m] = ids[k]}
\* NumIllegalInCluster and NumCharInCluster at the division made at sample k
NumIllegalAt(ids, k) ==
  Cardinality({i \in {ids[m] : m \in 1..k} :
                 Cardinality({m \in 1..k : ids[m] = i}) >= 2})
NumCharAt(ids, k, SampleCount) ==
  SampleCount - Cardinality({m \in Repeats(ids) : m <= k})
AllDistinct(ids) == Repeats(ids) = {}
AtLeastOne == {M \in IllegalFractions \cup {<<3, 2>>} : RLe(One, M)}
FractionWithinOne(c) ==
  \A k \in Repeats(IDsOfSamples(c)) :
    /\ NumCharAt(IDsOfSamples(c), k, clusters[c].SampleCount) >= 1
    /\ NumIllegalAt(IDsOfSamples(c), k)
         <= NumCharAt(IDsOfSamples(c), k, clusters[c].SampleCount)
    /\ \A M \in IllegalFractions :
         TooManyIllegal(IDsOfSamples(c), k, clusters[c].SampleCount, M) <=>
           RLt(M, Rat(NumIllegalAt(IDsOfSamples(c), k),
                      NumCharAt(IDsOfSamples(c), k, clusters[c].SampleCount)))
C30_FractionWithinOne ==
  /\ \A c \in Clusters :
       clusters[c].SampleCount = Len(IDsOfSamples(c)) =>
         /\ FractionWithinOne(c)
         /\ \A M \in AtLeastOne : ~MultipleCharSamples(clusters, c, M)
         /\ AllDistinct(IDsOfSamples(c)) =>
              \A M \in IllegalFractions : ~MultipleCharSamples(clusters, c, M)
  /\ LastMade.Cluster # NULL /\ LastMade.Stage = "MultipleCharSamples" =>
       /\ RLt(LastMade.Config.MaxIllegal, One)
       /\ ~AllDistinct(IDsOfSamples(LastMade.Cluster))
\* MakePrototype has let through, with MaxIllegal = 1, a cluster of several
\* samples of one character: the fraction has reached 1 over a denominator
\* of 1
C30_Witness ==
  /\ LastMade.Cluster # NULL
  /\ LastMade.Config.MaxIllegal = One
  /\ LastMade.Stage # "MultipleCharSamples"
  /\ clusters[LastMade.Cluster].SampleCount = Len(IDsOfSamples(LastMade.Cluster))
  /\ \E k \in Repeats(IDsOfSamples(LastMade.Cluster)) :
       /\ NumCharAt(IDsOfSamples(LastMade.Cluster), k,
                    clusters[LastMade.Cluster].SampleCount) = 1
       /\ NumIllegalAt(IDsOfSamples(LastMade.Cluster), k) = 1
====
